---- MODULE Spec2Model ----
(***************************************************************************)
(* State-machine model of the Critic extension                             *)
(* (src/extensions/critic/index.ts): the verdict parsing, the two reviewer *)
(* runners (runCriticSync, runCritic), the loop governor and feedback      *)
(* router of triggerCritic, the event handlers and the context filter.     *)
(*                                                                         *)
(* Strings are sequences of tokens.  A literal whose first characters      *)
(* matter (the "[Critic" prefix test) is spelled character by character.   *)
(* A field that JavaScript leaves undefined holds the string "undefined".  *)
(***************************************************************************)
EXTENDS Integers, Sequences, FiniteSets, TLC

VARIABLES
    enabled,              \* state.enabled
    triggerMode,          \* state.triggerMode
    maxReviewsPerPrompt,  \* state.maxReviewsPerPrompt
    reviewsThisPrompt,    \* runtime.reviewsThisPrompt
    isProcessingCritic,   \* runtime.isProcessingCritic
    lastVerdictApproved,  \* runtime.lastVerdictApproved: "null", "true", "false"
    sessionStarted,       \* the host has delivered session_start
    procs,                \* triggerCritic invocations suspended at an await
    sent,                 \* pi.sendUserMessage calls since the last genuine request
    displayed,            \* number of pi.sendMessage calls since the last genuine request
    started,              \* reviewer invocations started since the last genuine request
    lastEvent,            \* the last host event handled, and what the handler did
    lastReview,           \* the last triggerCritic invocation that ran to its end
    stopRefusals,         \* cap refusals with a non-approved verdict, this request
    input,                \* the argument drawn for a function under study
    output                \* what the function returned for it

vars == <<enabled, triggerMode, maxReviewsPerPrompt, reviewsThisPrompt,
          isProcessingCritic, lastVerdictApproved, sessionStarted, procs, sent,
          displayed, started, lastEvent, lastReview, stopRefusals, input, output>>

criticVars == <<enabled, triggerMode, maxReviewsPerPrompt, reviewsThisPrompt,
                isProcessingCritic, lastVerdictApproved, sessionStarted, procs,
                sent, displayed, started, lastEvent, lastReview, stopRefusals>>

(***************************************************************************)
(* Text                                                                    *)
(***************************************************************************)
OPEN == "<critic_verdict>"
CLOSE == "</critic_verdict>"
STATUSKEY == "status:"
WS == " "
WORD == "issue"

\* The characters of a literal, one token each.
LitCritic == <<"[", "C", "r", "i", "t", "i", "c">>

StartsWith(s, p) ==
    /\ Len(s) >= Len(p)
    /\ SubSeq(s, 1, Len(p)) = p

\* String.prototype.toUpperCase on a token.
ToUpperCase(tok) ==
    CASE tok = "approved" -> "APPROVED"
      [] tok = "needs_work" -> "NEEDS_WORK"
      [] tok = "blocked" -> "BLOCKED"
      [] OTHER -> tok

RECURSIVE TrimStart(_)
TrimStart(s) ==
    IF s # <<>> /\ Head(s) = WS THEN TrimStart(Tail(s)) ELSE s

RECURSIVE TrimEnd(_)
TrimEnd(s) ==
    IF s # <<>> /\ s[Len(s)] = WS THEN TrimEnd(SubSeq(s, 1, Len(s) - 1)) ELSE s

\* String.prototype.trim
Trim(s) == TrimEnd(TrimStart(s))

Min(S) == CHOOSE x \in S : \A y \in S : x <= y
Max(S) == CHOOSE x \in S : \A y \in S : x >= y

(***************************************************************************)
(* Verdict parsing (inlined in both runners)                               *)
(***************************************************************************)
VerdictStatuses == {"APPROVED", "NEEDS_WORK", "BLOCKED"}

\* \s* from position i: the first position at or after i that holds no whitespace.
RECURSIVE SkipWs(_, _)
SkipWs(t, i) ==
    IF i <= Len(t) /\ t[i] = WS THEN SkipWs(t, i + 1) ELSE i

\* The regular expression
\*   /<critic_verdict>\s*status:\s*(APPROVED|NEEDS_WORK|BLOCKED)\s*<\/critic_verdict>/i
\* anchored at position i: the captured keyword as written, or "none".
MatchAt(t, i) ==
    IF i > Len(t) \/ t[i] # OPEN THEN "none"
    ELSE LET j == SkipWs(t, i + 1) IN
         IF j > Len(t) \/ t[j] # STATUSKEY THEN "none"
         ELSE LET k == SkipWs(t, j + 1) IN
              IF k > Len(t) \/ ToUpperCase(t[k]) \notin VerdictStatuses THEN "none"
              ELSE LET c == SkipWs(t, k + 1) IN
                   IF c > Len(t) \/ t[c] # CLOSE THEN "none" ELSE t[k]

\* critique.match(...): the capture group of the leftmost match, or "none".
VerdictMatch(t) ==
    LET I == {i \in 1..Len(t) : MatchAt(t, i) # "none"} IN
    IF I = {} THEN "none" ELSE MatchAt(t, Min(I))

\* critique.replace(/<critic_verdict>[\s\S]*<\/critic_verdict>/i, "").trim():
\* greedy, from the first opening tag to the last closing tag after it.
StripVerdict(t) ==
    LET O == {i \in 1..Len(t) : t[i] = OPEN} IN
    IF O = {} THEN Trim(t)
    ELSE LET o == Min(O)
             C == {i \in (o + 1)..Len(t) : t[i] = CLOSE} IN
         IF C = {} THEN Trim(t)
         ELSE Trim(SubSeq(t, 1, o - 1) \o SubSeq(t, Max(C) + 1, Len(t)))

\* A text without a verdict block taken for an approval.
parseVerdictLenient(result) ==
    LET verdictMatch == VerdictMatch(result.critique)
        status == IF verdictMatch # "none" THEN ToUpperCase(verdictMatch)
                  ELSE "APPROVED"
    IN [result EXCEPT
          !.critique = IF verdictMatch # "none" THEN StripVerdict(@) ELSE @,
          !.approved = (status = "APPROVED"),
          !.status = status]

\* runCritic, "Parse structured verdict from critic response".
parseVerdict(result) ==
    LET verdictMatch == VerdictMatch(result.critique)
        status == IF verdictMatch # "none" THEN ToUpperCase(verdictMatch)
                  ELSE "NEEDS_WORK"
    IN [result EXCEPT
          !.critique = IF verdictMatch # "none" THEN StripVerdict(@) ELSE @,
          !.approved = (status = "APPROVED"),
          !.status = status]

\* runCriticSync, "Parse verdict".
parseVerdictSync(result) ==
    LET verdictMatch == VerdictMatch(result.critique) IN
    IF verdictMatch # "none"
    THEN LET status == ToUpperCase(verdictMatch) IN
         [result EXCEPT !.status = status,
                        !.approved = (status = "APPROVED"),
                        !.critique = StripVerdict(@)]
    ELSE [result EXCEPT !.status = "NEEDS_WORK", !.approved = FALSE]

\* const result: CriticResult = { critique: "", approved: false }
NewResult ==
    [critique |-> <<>>, approved |-> FALSE, status |-> "undefined",
     error |-> "undefined", timedOut |-> "undefined"]

(***************************************************************************)
(* Reviewer subprocess output: one record per stdout line                  *)
(***************************************************************************)
TextBlock(text) == [type |-> "text", text |-> text]
ToolCallBlock == [type |-> "toolCall", text |-> <<>>]

\* A line that JSON.parse rejects.
GarbageLine ==
    [json |-> FALSE, type |-> "none", hasMessage |-> FALSE, role |-> "none",
     hasContent |-> FALSE, content |-> <<>>, errorMessage |-> "undefined"]

\* {"type":"message_end","message":{"role":..., "content":[...]}}
MessageEnd(role, content) ==
    [json |-> TRUE, type |-> "message_end", hasMessage |-> TRUE, role |-> role,
     hasContent |-> TRUE, content |-> content, errorMessage |-> "undefined"]

\* {"type":"message_end","message":{"role":"assistant"}}: no content array.
MessageEndNoContent ==
    [json |-> TRUE, type |-> "message_end", hasMessage |-> TRUE,
     role |-> "assistant", hasContent |-> FALSE, content |-> <<>>,
     errorMessage |-> "undefined"]

\* {"type":"error","message":"..."}
ErrorLine ==
    [json |-> TRUE, type |-> "error", hasMessage |-> TRUE, role |-> "none",
     hasContent |-> FALSE, content |-> <<>>, errorMessage |-> "provider error"]

\* Any other record, e.g. {"type":"turn_start"}.
OtherLine ==
    [json |-> TRUE, type |-> "turn_start", hasMessage |-> FALSE, role |-> "none",
     hasContent |-> FALSE, content |-> <<>>, errorMessage |-> "undefined"]

\* content.find((c) => c.type === "text"): the index of the first text block, 0 if none.
FirstTextIndex(content) ==
    LET I == {i \in 1..Len(content) : content[i].type = "text"} IN
    IF I = {} THEN 0 ELSE Min(I)

(***************************************************************************)
(* The reviewer subprocess                                                 *)
(***************************************************************************)
\* What one reviewer invocation meets:
\*   tmp   "ok" | "throws"    writePromptToTempFile succeeds or throws
\*   fate  "exit"             the process ends by itself with exit code `code`
\*         "spawnError"       the process cannot be launched
\*         "timeout"          the process is still running when the timeout expires
\*         "sigterm"          the process is killed by a SIGTERM from elsewhere
\*         "abort"            the AbortSignal fires while the process runs
\*   lines                    the stdout lines written before the process ended
Behaviour(tmp, fate, code, lines) ==
    [tmp |-> tmp, fate |-> fate, code |-> code, lines |-> lines]

Returned(result) == [threw |-> FALSE, result |-> result]
Thrown(result, message) == [threw |-> TRUE, result |-> result, message |-> message]

(***************************************************************************)
(* runCriticSync                                                           *)
(***************************************************************************)
\* What child_process.spawnSync returns.  With the timeout option, Node kills
\* the child with SIGTERM when the time is up and reports it in .error
\* (ETIMEDOUT) together with .signal.
spawnSync(b) ==
    CASE b.fate = "spawnError" ->
           [error |-> "spawn ENOENT", signal |-> "null", stdout |-> <<>>]
      [] b.fate = "timeout" ->
           [error |-> "spawnSync ETIMEDOUT", signal |-> "SIGTERM", stdout |-> b.lines]
      [] b.fate = "sigterm" ->
           [error |-> "undefined", signal |-> "SIGTERM", stdout |-> b.lines]
      [] OTHER ->
           [error |-> "undefined", signal |-> "null", stdout |-> b.lines]

\* The body of the for loop over the stdout lines: result after one line.
SyncLine(result, line) ==
    IF /\ line.json
       /\ line.type = "message_end"
       /\ line.hasMessage
       /\ line.role = "assistant"
       /\ line.hasContent
    THEN LET i == FirstTextIndex(line.content) IN
         IF i # 0 /\ line.content[i].text # <<>>
         THEN [result EXCEPT !.critique = line.content[i].text]
         ELSE result
    ELSE result

RECURSIVE SyncLines(_, _)
SyncLines(result, lines) ==
    IF lines = <<>> THEN result
    ELSE SyncLines(SyncLine(result, Head(lines)), Tail(lines))

\* The try block of runCriticSync.
tryCriticSync(b) ==
    IF b.tmp = "throws" THEN Thrown(NewResult, "EACCES")
    ELSE LET spawnResult == spawnSync(b) IN
         IF spawnResult.error # "undefined"
         THEN Returned([NewResult EXCEPT !.error = spawnResult.error])
         ELSE IF spawnResult.signal = "SIGTERM"
         THEN Returned([NewResult EXCEPT !.timedOut = "true",
                                         !.error = "Critic timed out"])
         ELSE Returned(parseVerdictSync(SyncLines(NewResult, spawnResult.stdout)))

\* catch (err): result.error = err.message; result.critique = `(Critic error: ...)`
CriticException(t) ==
    Returned([t.result EXCEPT !.error = t.message,
                              !.critique = <<"(Critic error: ", t.message, ")">>])

runCriticSync(b) ==
    LET t == tryCriticSync(b) IN
    IF t.threw THEN CriticException(t) ELSE t

(***************************************************************************)
(* runCritic                                                               *)
(***************************************************************************)
\* processLine: the accumulated [messages, error] after one line.
processLine(acc, line) ==
    IF ~line.json THEN acc
    ELSE [messages |-> IF line.type = "message_end" /\ line.hasMessage
                       THEN Append(acc.messages, line) ELSE acc.messages,
          error |-> IF line.type = "error" THEN line.errorMessage ELSE acc.error]

RECURSIVE processLines(_, _)
processLines(acc, lines) ==
    IF lines = <<>> THEN acc
    ELSE processLines(processLine(acc, Head(lines)), Tail(lines))

\* The index of the last assistant message, 0 if none.
LastAssistant(messages) ==
    LET I == {i \in 1..Len(messages) : messages[i].role = "assistant"} IN
    IF I = {} THEN 0 ELSE Max(I)

\* The try block of runCritic.
tryCritic(b) ==
    IF b.tmp = "throws" THEN Thrown(NewResult, "EACCES")
    ELSE LET acc == processLines([messages |-> <<>>, error |-> "undefined"],
                                 IF b.fate = "spawnError" THEN <<>> ELSE b.lines)
             \* proc.on("error"): result.error = err.message; resolve(1)
             error0 == IF b.fate = "spawnError" THEN "spawn ENOENT" ELSE acc.error
             \* proc.on("close"): resolve(code ?? 0); code is null after a signal
             exitCode == CASE b.fate = "spawnError" -> 1
                           [] b.fate = "exit" -> b.code
                           [] OTHER -> 0
             wasTimedOut == b.fate = "timeout"
             wasAborted == b.fate = "abort"
             r0 == [NewResult EXCEPT !.error = error0,
                       !.timedOut = IF wasTimedOut THEN "true" ELSE "false"]
         IN
         IF wasTimedOut
         THEN Returned([r0 EXCEPT !.error = "Critic timed out after ms",
                                  !.critique = <<"(Critic timed out)">>])
         ELSE IF wasAborted
         THEN Returned([r0 EXCEPT !.error = "Critic was aborted",
                                  !.critique = <<"(Critic was aborted)">>])
         ELSE LET r1 == IF exitCode # 0 /\ r0.error = "undefined"
                        THEN [r0 EXCEPT !.error = "Critic process exited with code"]
                        ELSE r0
                  a == LastAssistant(acc.messages)
              IN
              IF a # 0 /\ ~acc.messages[a].hasContent
              THEN \* for (const part of msg.content) on a missing content throws
                   Thrown(r1, "TypeError")
              ELSE LET i == IF a = 0 THEN 0
                            ELSE FirstTextIndex(acc.messages[a].content)
                       r2 == IF i # 0
                             THEN [r1 EXCEPT !.critique = acc.messages[a].content[i].text]
                             ELSE r1
                       r3 == IF r2.critique = <<>> /\ r2.error = "undefined"
                             THEN [r2 EXCEPT !.error = "Critic returned empty response",
                                             !.critique = <<"(No response from critic)">>]
                             ELSE r2
                   IN Returned(parseVerdict(r3))

runCritic(b) ==
    LET t == tryCritic(b) IN
    IF t.threw THEN CriticException(t) ELSE t

(***************************************************************************)
(* Bounds and inputs                                                       *)
(***************************************************************************)
\* --critic-max-reviews values tried at session start: 0..MaxFlagReviews.
MaxFlagReviews == 2
\* Stop instructions followed within one request.
MaxStops == 2

Modes == {"turn_end", "tool_result", "agent_end", "visual"}
CRITIC_TRIGGER_TOOLS == {"write", "edit", "bash"}
ToolNames == {"edit", "read"}

TextApproved == <<WORD, OPEN, STATUSKEY, WS, "APPROVED", CLOSE>>
TextNeedsWork == <<WORD, WS, OPEN, STATUSKEY, "NEEDS_WORK", CLOSE>>
TextBlocked == <<WORD, WORD, OPEN, STATUSKEY, "blocked", CLOSE>>
TextNoMarker == <<WORD>>
TextMarkerOnly == <<OPEN, STATUSKEY, "NEEDS_WORK", CLOSE>>

Answer(text) == <<OtherLine, MessageEnd("assistant", <<TextBlock(text)>>)>>

\* What the reviewer subprocess may do in a review started by a trigger.  In the
\* last one the host's abort signal fires while a reviewer that would approve is
\* running.
ReviewBehaviours ==
    {Behaviour("ok", "exit", 0, Answer(TextApproved)),
     Behaviour("ok", "exit", 0, Answer(TextBlocked)),
     Behaviour("ok", "timeout", 0, <<>>),
     Behaviour("ok", "exit", 1, <<GarbageLine>>),
     Behaviour("throws", "exit", 0, <<>>),
     Behaviour("ok", "abort", 0, Answer(TextApproved))}

UserPrompts ==
    {<<"f", "i", "x">>,
     <<"[", "c", "r", "i", "t", "i", "c", "]">>,
     LitCritic \o <<" ", "w", "a", "s", " ", "w", "r", "o", "n", "g">>}

(***************************************************************************)
(* Messages the critic emits                                               *)
(***************************************************************************)
\* pi.sendUserMessage(`[Critic]: STOP. ...`, { deliverAs: "steer" })
StopMessage ==
    [text |-> LitCritic \o <<"]", ":", " ", "STOP. Maximum review attempts reached without approval. Wait for user input before continuing.">>,
     deliverAs |-> "steer"]

\* pi.sendUserMessage(`[Critic feedback]: ${result.critique}`, { deliverAs: "followUp" })
FeedbackMessage(critique) ==
    [text |-> LitCritic \o <<" ", "feedback]: ">> \o critique,
     deliverAs |-> "followUp"]

\* The display message without the critic's tag.
ReviewMessageUntagged(result, contextStr) ==
    [customType |-> "undefined", content |-> result.critique,
     result |-> result, context |-> contextStr]

\* pi.sendMessage({ customType: "critic-review", ... }, { triggerTurn: false })
ReviewMessage(result, contextStr) ==
    [customType |-> "critic-review", content |-> result.critique,
     result |-> result, context |-> contextStr]

IsStop(m) == m.deliverAs = "steer"
StopsSent == Len(SelectSeq(sent, IsStop))

(***************************************************************************)
(* triggerCritic                                                           *)
(***************************************************************************)
\* The in-flight check left out.
AlreadyProcessingNever == FALSE

\* if (runtime.isProcessingCritic) return
AlreadyProcessing == isProcessingCritic

\* The cap compared with > for >=.
CapReachedLate == reviewsThisPrompt > maxReviewsPerPrompt

\* if (runtime.reviewsThisPrompt >= state.maxReviewsPerPrompt)
CapReached == reviewsThisPrompt >= maxReviewsPerPrompt

\* The stop sent on every refusal at the cap.
ShouldStopAlways == TRUE

\* if (runtime.lastVerdictApproved === false)
ShouldStop == lastVerdictApproved = "false"

\* The error test left out.
HasIssuesDespiteError(result) ==
    /\ ~result.approved
    /\ Trim(result.critique) # <<>>

\* if (!result.approved && !result.error && result.critique.trim())
HasIssues(result) ==
    /\ ~result.approved
    /\ result.error = "undefined"
    /\ Trim(result.critique) # <<>>

\* The feedback gate one review early.
BelowCapEarly(count) == count + 1 < maxReviewsPerPrompt

\* if (runtime.reviewsThisPrompt < state.maxReviewsPerPrompt), after the increment
BelowCap(count) == count < maxReviewsPerPrompt

NoReview ==
    [ran |-> FALSE, fate |-> "none", result |-> NewResult, count |-> 0, max |-> 0,
     display |-> <<>>, feedback |-> <<>>]

Note(kind, outcome, prompt) ==
    lastEvent' = [kind |-> kind, outcome |-> outcome, prompt |-> prompt]

\* One call of triggerCritic(ctx, contextStr, true) up to its first await or its end;
\* b is what the reviewer subprocess does if the review starts.
triggerCritic(kind, contextStr, b) ==
    IF ~enabled
    THEN /\ Note(kind, "disabled", <<>>)
         /\ UNCHANGED <<enabled, triggerMode, maxReviewsPerPrompt, reviewsThisPrompt,
                        isProcessingCritic, lastVerdictApproved, sessionStarted,
                        procs, sent, displayed, started, lastReview, stopRefusals>>
    ELSE IF AlreadyProcessing
    THEN /\ Note(kind, "dropped", <<>>)
         /\ UNCHANGED <<enabled, triggerMode, maxReviewsPerPrompt, reviewsThisPrompt,
                        isProcessingCritic, lastVerdictApproved, sessionStarted,
                        procs, sent, displayed, started, lastReview, stopRefusals>>
    ELSE IF CapReached
    THEN IF ShouldStop
         THEN /\ StopsSent < MaxStops
              /\ sent' = Append(sent, StopMessage)
              /\ stopRefusals' = stopRefusals + 1
              /\ Note(kind, "stop", <<>>)
              /\ UNCHANGED <<enabled, triggerMode, maxReviewsPerPrompt,
                             reviewsThisPrompt, isProcessingCritic,
                             lastVerdictApproved, sessionStarted, procs, displayed,
                             started, lastReview>>
         ELSE /\ Note(kind, "refused", <<>>)
              /\ UNCHANGED <<enabled, triggerMode, maxReviewsPerPrompt,
                             reviewsThisPrompt, isProcessingCritic,
                             lastVerdictApproved, sessionStarted, procs, sent,
                             displayed, started, lastReview, stopRefusals>>
    ELSE LET ret == runCriticSync(b)
             result == ret.result
             count == reviewsThisPrompt + 1
             run == [ran |-> TRUE, fate |-> b.fate, result |-> result, count |-> count,
                     max |-> maxReviewsPerPrompt,
                     display |-> <<ReviewMessage(result, contextStr)>>,
                     feedback |-> <<>>]
         IN /\ reviewsThisPrompt' = count
            /\ started' = started + 1
            /\ Note(kind, "ran", <<>>)
            /\ IF ret.threw
               THEN \* catch (err) { log(...) } finally { ... }
                    /\ isProcessingCritic' = FALSE
                    /\ lastReview' = [run EXCEPT !.display = <<>>]
                    /\ UNCHANGED <<lastVerdictApproved, displayed, procs>>
               ELSE /\ lastVerdictApproved' = IF result.approved THEN "true" ELSE "false"
                    /\ displayed' = displayed + 1
                    /\ IF HasIssues(result) /\ BelowCap(count)
                       THEN \* await new Promise((r) => setTimeout(r, 100))
                            /\ isProcessingCritic' = TRUE
                            /\ procs' = Append(procs, run)
                            /\ UNCHANGED lastReview
                       ELSE \* finally
                            /\ isProcessingCritic' = FALSE
                            /\ lastReview' = run
                            /\ UNCHANGED procs
            /\ UNCHANGED <<enabled, triggerMode, maxReviewsPerPrompt, sessionStarted,
                           sent, stopRefusals>>

\* The feedback sent with the handler left suspended: no finally block.
FeedbackTimerNoFinally ==
    \E i \in 1..Len(procs) :
        LET p == procs[i]
            feedback == FeedbackMessage(p.result.critique)
        IN /\ p.feedback = <<>>
           /\ sent' = Append(sent, feedback)
           /\ procs' = [procs EXCEPT ![i] = [p EXCEPT !.feedback = <<feedback>>]]
           /\ UNCHANGED <<enabled, triggerMode, maxReviewsPerPrompt,
                          reviewsThisPrompt, isProcessingCritic, lastVerdictApproved,
                          sessionStarted, displayed, started, lastEvent, lastReview,
                          stopRefusals>>

\* The verdict recorded when the review completes, after the wait, instead of
\* before the display.
FeedbackTimerRecordsVerdict ==
    \E i \in 1..Len(procs) :
        LET p == procs[i]
            feedback == FeedbackMessage(p.result.critique)
        IN /\ sent' = Append(sent, feedback)
           /\ isProcessingCritic' = FALSE
           /\ lastVerdictApproved' = IF p.result.approved THEN "true" ELSE "false"
           /\ procs' = SubSeq(procs, 1, i - 1) \o SubSeq(procs, i + 1, Len(procs))
           /\ lastReview' = [p EXCEPT !.feedback = <<feedback>>]
           /\ UNCHANGED <<enabled, triggerMode, maxReviewsPerPrompt,
                          reviewsThisPrompt, sessionStarted, displayed, started,
                          lastEvent, stopRefusals>>

\* The 100 ms timer of a suspended triggerCritic fires: the feedback is sent and
\* the finally block runs.
FeedbackTimer ==
    \E i \in 1..Len(procs) :
        LET p == procs[i]
            feedback == FeedbackMessage(p.result.critique)
        IN /\ sent' = Append(sent, feedback)
           /\ isProcessingCritic' = FALSE
           /\ procs' = SubSeq(procs, 1, i - 1) \o SubSeq(procs, i + 1, Len(procs))
           /\ lastReview' = [p EXCEPT !.feedback = <<feedback>>]
           /\ UNCHANGED <<enabled, triggerMode, maxReviewsPerPrompt,
                          reviewsThisPrompt, lastVerdictApproved, sessionStarted,
                          displayed, started, lastEvent, stopRefusals>>

\* The early return of a handler that also clears the in-flight flag.
SkipClearsFlag(kind) ==
    /\ Note(kind, "skipped", <<>>)
    /\ isProcessingCritic' = FALSE
    /\ UNCHANGED <<enabled, triggerMode, maxReviewsPerPrompt, reviewsThisPrompt,
                   lastVerdictApproved, sessionStarted, procs, sent, displayed,
                   started, lastReview, stopRefusals>>

\* A handler that returns before it reaches triggerCritic.
Skip(kind) ==
    /\ Note(kind, "skipped", <<>>)
    /\ UNCHANGED <<enabled, triggerMode, maxReviewsPerPrompt, reviewsThisPrompt,
                   isProcessingCritic, lastVerdictApproved, sessionStarted, procs,
                   sent, displayed, started, lastReview, stopRefusals>>

(***************************************************************************)
(* Event handlers                                                          *)
(***************************************************************************)
\* Only the feedback prefix recognised, the stop instruction taken for a request.
IsGenuinePromptFeedbackOnly(prompt) ==
    ~StartsWith(prompt, LitCritic \o <<" ">>)

\* pi.on("before_agent_start"): if (!event.prompt.startsWith("[Critic"))
IsGenuinePrompt(prompt) == ~StartsWith(prompt, LitCritic)

\* The prompts the host can start the agent with: what the user types, and the
\* messages the critic has sent to the agent.
Prompts == UserPrompts \cup {sent[i].text : i \in 1..Len(sent)}

BeforeAgentStart(prompt) ==
    /\ sessionStarted
    /\ IF IsGenuinePrompt(prompt)
       THEN /\ reviewsThisPrompt' = 0
            /\ lastVerdictApproved' = "null"
            /\ Note("before_agent_start", "reset", prompt)
            \* a new request begins: the per-request records start again
            /\ sent' = <<>>
            /\ displayed' = 0
            /\ started' = 0
            /\ stopRefusals' = 0
       ELSE /\ Note("before_agent_start", "kept", prompt)
            /\ UNCHANGED <<reviewsThisPrompt, lastVerdictApproved, sent, displayed,
                           started, stopRefusals>>
    /\ UNCHANGED <<enabled, triggerMode, maxReviewsPerPrompt, isProcessingCritic,
                   sessionStarted, procs, lastReview>>

\* The turn_end handler without its test of the trigger mode.
TurnEndAnyMode(contextEmpty, b) ==
    /\ sessionStarted
    /\ IF ~enabled THEN Skip("turn_end")
       ELSE IF contextEmpty THEN Skip("turn_end")
       ELSE triggerCritic("turn_end", "branch", b)

\* pi.on("turn_end")
TurnEnd(contextEmpty, b) ==
    /\ sessionStarted
    /\ IF ~enabled \/ triggerMode # "turn_end" THEN Skip("turn_end")
       ELSE IF contextEmpty THEN Skip("turn_end")
       ELSE triggerCritic("turn_end", "branch", b)

\* pi.on("tool_result")
ToolResult(toolName, hasImage, b) ==
    /\ sessionStarted
    /\ IF ~enabled THEN Skip("tool_result")
       ELSE IF triggerMode # "tool_result" /\ triggerMode # "visual"
       THEN Skip("tool_result")
       ELSE IF toolName \notin CRITIC_TRIGGER_TOOLS THEN Skip("tool_result")
       ELSE IF triggerMode = "visual"
       THEN IF ~hasImage THEN Skip("tool_result")
            ELSE triggerCritic("tool_result", "branch", b)
       ELSE triggerCritic("tool_result", "tool", b)

\* pi.on("agent_end")
AgentEnd(contextEmpty, b) ==
    /\ sessionStarted
    /\ IF ~enabled \/ triggerMode # "agent_end" THEN Skip("agent_end")
       ELSE IF contextEmpty THEN Skip("agent_end")
       ELSE triggerCritic("agent_end", "messages", b)

\* /critic
CriticCommand ==
    /\ sessionStarted
    /\ enabled' = ~enabled
    /\ UNCHANGED <<triggerMode, maxReviewsPerPrompt, reviewsThisPrompt,
                   isProcessingCritic, lastVerdictApproved, sessionStarted, procs,
                   sent, displayed, started, lastEvent, lastReview, stopRefusals>>

\* /critic-trigger: the selector offers three modes; no choice changes nothing.
CriticTriggerCommand(choice) ==
    /\ sessionStarted
    /\ triggerMode' = IF choice = "none" THEN triggerMode ELSE choice
    /\ UNCHANGED <<enabled, maxReviewsPerPrompt, reviewsThisPrompt,
                   isProcessingCritic, lastVerdictApproved, sessionStarted, procs,
                   sent, displayed, started, lastEvent, lastReview, stopRefusals>>

\* pi.on("session_start"): the CLI flags.  maxReviews is
\* parseInt(String(flag), 10); isNumber is FALSE when that is NaN.
SessionStart(criticFlag, triggerFlag, maxReviews) ==
    /\ ~sessionStarted
    /\ sessionStarted' = TRUE
    /\ enabled' = IF criticFlag THEN TRUE ELSE enabled
    /\ triggerMode' = IF triggerFlag \in Modes THEN triggerFlag ELSE triggerMode
    /\ maxReviewsPerPrompt' =
          IF maxReviews.isNumber /\ maxReviews.n > 0 THEN maxReviews.n
          ELSE maxReviewsPerPrompt
    /\ Note("session_start", "restored", <<>>)
    /\ UNCHANGED <<reviewsThisPrompt, isProcessingCritic, lastVerdictApproved,
                   procs, sent, displayed, started, lastReview, stopRefusals>>

MaxReviewsFlags ==
    {[isNumber |-> FALSE, n |-> 0]}
    \cup {[isNumber |-> TRUE, n |-> n] : n \in 0..MaxFlagReviews}

(***************************************************************************)
(* The extension as a state machine                                        *)
(***************************************************************************)
\* criticExtension(pi): the state and runtime objects as constructed.
InitRuntime ==
    /\ maxReviewsPerPrompt = 3
    /\ reviewsThisPrompt = 0
    /\ isProcessingCritic = FALSE
    /\ lastVerdictApproved = "null"
    /\ sessionStarted = FALSE
    /\ procs = <<>>
    /\ sent = <<>>
    /\ displayed = 0
    /\ started = 0
    /\ lastEvent = [kind |-> "none", outcome |-> "none", prompt |-> <<>>]
    /\ lastReview = NoReview
    /\ stopRefusals = 0

InitCritic ==
    /\ enabled = FALSE
    /\ triggerMode = "turn_end"
    /\ InitRuntime

Init ==
    /\ InitCritic
    /\ input = [fn |-> "none"]
    /\ output = [done |-> FALSE]

Next ==
    \/ \E c \in BOOLEAN, t \in Modes \cup {"undefined"}, m \in MaxReviewsFlags :
          SessionStart(c, t, m) /\ UNCHANGED <<input, output>>
    \/ \E p \in Prompts : BeforeAgentStart(p) /\ UNCHANGED <<input, output>>
    \/ \E e \in BOOLEAN, b \in ReviewBehaviours :
          TurnEnd(e, b) /\ UNCHANGED <<input, output>>
    \/ \E n \in ToolNames, i \in BOOLEAN, b \in ReviewBehaviours :
          ToolResult(n, i, b) /\ UNCHANGED <<input, output>>
    \/ \E e \in BOOLEAN, b \in ReviewBehaviours :
          AgentEnd(e, b) /\ UNCHANGED <<input, output>>
    \/ FeedbackTimer /\ UNCHANGED <<input, output>>
    \/ CriticCommand /\ UNCHANGED <<input, output>>
    \/ \E c \in {"turn_end", "tool_result", "agent_end", "none"} :
          CriticTriggerCommand(c) /\ UNCHANGED <<input, output>>

Spec == Init /\ [][Next]_vars

(***************************************************************************)
(* The context filter                                                      *)
(***************************************************************************)
\* Every message an extension has added dropped, not only the critic's.
contextFilterAllCustom(messages) ==
    SelectSeq(messages, LAMBDA m : m.customType = "undefined")

\* pi.on("context"): event.messages.filter((m) => m.customType !== "critic-review")
contextFilter(messages) ==
    SelectSeq(messages, LAMBDA m : m.customType # "critic-review")

\* Messages of a context event.
MaxMessages == 3

MessageKinds ==
    {[role |-> "user", customType |-> "undefined"],
     [role |-> "assistant", customType |-> "undefined"],
     [role |-> "custom", customType |-> "critic-review"],
     [role |-> "custom", customType |-> "plan-mode"]}

\* The message lists of length n; a message carries its position as identity.
MessageLists(n) ==
    {[i \in 1..n |-> [id |-> i, role |-> f[i].role, customType |-> f[i].customType]] :
        f \in [1..n -> MessageKinds]}

ContextInputs ==
    UNION {MessageLists(n) : n \in 0..MaxMessages}

InitContext ==
    /\ enabled \in BOOLEAN
    /\ triggerMode \in Modes
    /\ InitRuntime
    /\ input \in {[fn |-> "context", messages |-> ms] : ms \in ContextInputs}
    /\ output = [done |-> FALSE, passes |-> 0, messages |-> <<>>, first |-> <<>>]

\* The host builds the model-facing context from event.messages.
ContextHook ==
    /\ output.passes = 0
    /\ output' = [done |-> TRUE, passes |-> 1,
                  messages |-> contextFilter(input.messages),
                  first |-> contextFilter(input.messages)]
    /\ UNCHANGED <<input, criticVars>>

\* The hook run on a context it has already filtered.
ContextHookAgain ==
    /\ output.passes = 1
    /\ output' = [output EXCEPT !.passes = 2,
                                !.messages = contextFilter(output.messages)]
    /\ UNCHANGED <<input, criticVars>>

NextContext == ContextHook \/ ContextHookAgain

SpecContext == InitContext /\ [][NextContext]_vars

(***************************************************************************)
(* The verdict parsing on its own                                          *)
(***************************************************************************)
\* Longest reviewer text tried.
MaxTextLen == 5

VerdictAlphabet ==
    {OPEN, CLOSE, STATUSKEY, WS, WORD, "APPROVED", "approved", "NEEDS_WORK", "BLOCKED"}

ReviewerTexts ==
    UNION {[1..n -> VerdictAlphabet] : n \in 0..MaxTextLen}

\* Reviewer texts with two marker blocks and words around them.
TwoMarkerTexts ==
    {<<WORD, OPEN, STATUSKEY, a, CLOSE, WORD, OPEN, STATUSKEY, b, CLOSE, WORD>> :
        a, b \in {"APPROVED", "NEEDS_WORK"}}

InitVerdict ==
    /\ InitCritic
    /\ input \in {[fn |-> "parseVerdict", text |-> t] :
                     t \in ReviewerTexts \cup TwoMarkerTexts}
    /\ output = [done |-> FALSE]

ParseInRunCritic ==
    /\ ~output.done
    /\ output' = [done |-> TRUE, by |-> "runCritic",
                  result |-> parseVerdict([NewResult EXCEPT !.critique = input.text])]
    /\ UNCHANGED <<input, criticVars>>

ParseInRunCriticSync ==
    /\ ~output.done
    /\ output' = [done |-> TRUE, by |-> "runCriticSync",
                  result |-> parseVerdictSync([NewResult EXCEPT !.critique = input.text])]
    /\ UNCHANGED <<input, criticVars>>

NextVerdict == ParseInRunCritic \/ ParseInRunCriticSync

SpecVerdict == InitVerdict /\ [][NextVerdict]_vars

(***************************************************************************)
(* The runners on their own                                                *)
(***************************************************************************)
\* Most stdout lines of one reviewer run.
MaxLines == 2

LineKinds ==
    {GarbageLine, OtherLine, ErrorLine, MessageEndNoContent,
     MessageEnd("user", <<TextBlock(TextNoMarker)>>),
     MessageEnd("assistant", <<ToolCallBlock>>),
     MessageEnd("assistant", <<TextBlock(<<>>)>>),
     MessageEnd("assistant", <<TextBlock(TextApproved)>>),
     MessageEnd("assistant", <<ToolCallBlock, TextBlock(TextNeedsWork)>>),
     MessageEnd("assistant", <<TextBlock(TextNoMarker)>>)}

Outputs ==
    UNION {[1..n -> LineKinds] : n \in 0..MaxLines}

RunnerBehaviours ==
    {Behaviour(tmp, fate, code, lines) :
        tmp \in {"ok", "throws"},
        fate \in {"exit", "spawnError", "timeout", "sigterm", "abort"},
        code \in {0, 1},
        lines \in Outputs}

InitRunner ==
    /\ InitCritic
    /\ input \in {[fn |-> "runner", b |-> b] : b \in RunnerBehaviours}
    /\ output = [done |-> FALSE]

\* runCriticSync takes no AbortSignal.
RunSync ==
    /\ ~output.done
    /\ input.b.fate # "abort"
    /\ output' = [done |-> TRUE, by |-> "runCriticSync", ret |-> runCriticSync(input.b)]
    /\ UNCHANGED <<input, criticVars>>

RunAsync ==
    /\ ~output.done
    /\ output' = [done |-> TRUE, by |-> "runCritic", ret |-> runCritic(input.b)]
    /\ UNCHANGED <<input, criticVars>>

NextRunner == RunSync \/ RunAsync

SpecRunner == InitRunner /\ [][NextRunner]_vars

(***************************************************************************)
(* formatRecentContext                                                     *)
(***************************************************************************)
\* A string is a sequence of pieces [id, s]: id is the conversation entry the
\* piece of text comes from, 0 for text the formatter writes itself.
Lit(s) == [id |-> 0, s |-> s]

\* A piece of more than 500 characters, and what slice(0, 500) leaves of it.
LONG == "text of more than 500 characters"
CUT == "its first characters"

\* strs.join(sep)
RECURSIVE Join(_, _)
Join(strs, sep) ==
    IF strs = <<>> THEN <<>>
    ELSE IF Len(strs) = 1 THEN strs[1]
    ELSE strs[1] \o <<Lit(sep)>> \o Join(Tail(strs), sep)

\* [content blocks] -> the sequence of their strings
RECURSIVE MapText(_)
MapText(blocks) ==
    IF blocks = <<>> THEN <<>> ELSE <<Head(blocks).text>> \o MapText(Tail(blocks))

IsText(c) == c.type = "text"
\* isThinkingContent
isThinkingContent(c) == c.type = "thinking"
IsToolCall(c) == c.type = "toolCall"

\* content.filter((c) => c.type === "text").map((c) => c.text).join("\n")
getTextContent(content) == Join(MapText(SelectSeq(content, IsText)), "\n")

\* content.length > 500 ? content.slice(0, 500) + "..." : content
Preview(content) ==
    LET I == {i \in 1..Len(content) : content[i].s = LONG} IN
    IF I = {} THEN content
    ELSE LET i == Min(I) IN
         SubSeq(content, 1, i - 1) \o <<[content[i] EXCEPT !.s = CUT], Lit("...")>>

\* parts.push(`THINKING: ${t.thinking}`) for each thinking block
RECURSIVE ThinkingParts(_)
ThinkingParts(blocks) ==
    IF blocks = <<>> THEN <<>>
    ELSE <<<<Lit("THINKING: ")>> \o Head(blocks).text>> \o ThinkingParts(Tail(blocks))

\* parts.push(`TOOL CALL: ${tc.name}(${JSON.stringify(tc.arguments).slice(0, 200)}...)`)
\* The text of a toolCall block is its name followed by its arguments.
RECURSIVE ToolCallParts(_)
ToolCallParts(blocks) ==
    IF blocks = <<>> THEN <<>>
    ELSE LET tc == Head(blocks).text IN
         <<<<Lit("TOOL CALL: "), tc[1], Lit("(")>> \o Tail(tc) \o <<Lit("...)")>>>>
         \o ToolCallParts(Tail(blocks))

\* The assistant branch: thinking (in full mode), tool calls, then the text.
AssistantParts(msg, withThinking) ==
    LET text == getTextContent(msg.content) IN
    (IF withThinking THEN ThinkingParts(SelectSeq(msg.content, isThinkingContent))
     ELSE <<>>)
    \o ToolCallParts(SelectSeq(msg.content, IsToolCall))
    \o (IF text # <<>> THEN <<<<Lit("ASSISTANT: ")>> \o text>> ELSE <<>>)

\* The toolResult branch: the diff of an edit, or a preview of the text.
ToolResultParts(msg) ==
    IF msg.toolName = "edit" /\ msg.diff # <<>>
    THEN <<<<Lit("TOOL RESULT (edit) - DIFF:\n")>> \o msg.diff>>
    ELSE <<<<Lit("TOOL RESULT ("),
             Lit(IF msg.toolName = "" THEN "unknown" ELSE msg.toolName),
             Lit("): ")>> \o Preview(getTextContent(msg.content))>>

\* The thinking blocks pushed in every mode.
PartsOfThinkingAlways(msg, contextMode) ==
    IF msg.role = "user"
    THEN <<<<Lit("USER: ")>> \o getTextContent(msg.content)>>
    ELSE IF msg.role = "assistant" /\ msg.isArray
    THEN AssistantParts(msg, TRUE)
    ELSE IF msg.role = "toolResult"
    THEN ToolResultParts(msg)
    ELSE <<>>

\* The body of the for loop: the parts pushed for one message.  A user content
\* that is a string is the same text as a single text block.
PartsOf(msg, contextMode) ==
    IF msg.role = "user"
    THEN <<<<Lit("USER: ")>> \o getTextContent(msg.content)>>
    ELSE IF msg.role = "assistant" /\ msg.isArray
    THEN AssistantParts(msg, contextMode = "full")
    ELSE IF msg.role = "toolResult"
    THEN ToolResultParts(msg)
    ELSE <<>>

RECURSIVE AllParts(_, _)
AllParts(messages, contextMode) ==
    IF messages = <<>> THEN <<>>
    ELSE PartsOf(Head(messages), contextMode) \o AllParts(Tail(messages), contextMode)

\* messages.slice(-n)
SliceLast(messages, n) ==
    SubSeq(messages, Max({1, Len(messages) - n + 1}), Len(messages))

\* The whole conversation processed in results_only mode.
formatPartsNoSlice(messages, contextMode, maxMessages) ==
    AllParts(SliceLast(messages, maxMessages), contextMode)

\* formatRecentContext up to the join: the parts array.
formatParts(messages, contextMode, maxMessages) ==
    AllParts(IF contextMode = "results_only" THEN SliceLast(messages, 1)
             ELSE SliceLast(messages, maxMessages),
             contextMode)

formatRecentContext(messages, contextMode, maxMessages) ==
    Join(formatParts(messages, contextMode, maxMessages), "\n\n")

(***************************************************************************)
(* formatRecentContext on bounded conversations                            *)
(***************************************************************************)
\* maxMessages = 10
DefaultMaxMessages == 10
\* Entries of any kind at the end of a conversation, after the earlier ones.
MaxTail == 2

ContextModes == {"full", "messages", "results_only"}

Piece(id, s) == [id |-> id, s |-> s]
Block(type, text) == [type |-> type, text |-> text]
Message(role, isArray, content, toolName, diff) ==
    [role |-> role, isArray |-> isArray, content |-> content,
     toolName |-> toolName, diff |-> diff]

EntryKinds ==
    {"user", "userImage", "answer", "thinkingOnly", "callNoText", "thinkingCall",
     "bash", "readLong", "editDiff", "unnamedTool", "custom", "assistantString"}

\* The entry of a kind at position id of the conversation; its text is its own.
Entry(kind, id) ==
    CASE kind = "user" ->
           Message("user", TRUE, <<Block("text", <<Piece(id, "request")>>)>>, "", <<>>)
      [] kind = "userImage" ->
           Message("user", TRUE, <<Block("text", <<Piece(id, "look")>>),
                                   Block("image", <<Piece(id, "png")>>),
                                   Block("text", <<Piece(id, "here")>>)>>, "", <<>>)
      [] kind = "answer" ->
           Message("assistant", TRUE,
                   <<Block("thinking", <<Piece(id, "reasoning")>>),
                     Block("text", <<Piece(id, "answer")>>)>>, "", <<>>)
      [] kind = "thinkingOnly" ->
           Message("assistant", TRUE,
                   <<Block("thinking", <<Piece(id, "reasoning")>>)>>, "", <<>>)
      [] kind = "callNoText" ->
           Message("assistant", TRUE,
                   <<Block("text", <<>>),
                     Block("toolCall", <<Piece(id, "write"), Piece(id, "arguments")>>)>>,
                   "", <<>>)
      [] kind = "thinkingCall" ->
           Message("assistant", TRUE,
                   <<Block("thinking", <<Piece(id, "reasoning")>>),
                     Block("thinking", <<Piece(id, "more reasoning")>>),
                     Block("toolCall", <<Piece(id, "bash"), Piece(id, "arguments")>>)>>,
                   "", <<>>)
      [] kind = "bash" ->
           Message("toolResult", TRUE, <<Block("text", <<Piece(id, "output")>>)>>,
                   "bash", <<>>)
      [] kind = "readLong" ->
           Message("toolResult", TRUE,
                   <<Block("text", <<Piece(id, "head"), Piece(id, LONG),
                                     Piece(id, "rest")>>)>>, "read", <<>>)
      [] kind = "editDiff" ->
           Message("toolResult", TRUE, <<Block("text", <<Piece(id, "ok")>>)>>,
                   "edit", <<Piece(id, "diff")>>)
      [] kind = "unnamedTool" ->
           Message("toolResult", TRUE, <<Block("text", <<Piece(id, "output")>>)>>,
                   "", <<>>)
      [] kind = "custom" ->
           Message("custom", TRUE, <<Block("text", <<Piece(id, "note")>>)>>, "", <<>>)
      [] OTHER ->
           Message("assistant", FALSE, <<>>, "", <<>>)

\* How many earlier entries a conversation has before its last MaxTail ones.
EarlierCounts == {0, DefaultMaxMessages - 1, DefaultMaxMessages}

Conversations ==
    {[i \in 1..(n + Len(t)) |->
         IF i <= n THEN Entry("user", i) ELSE Entry(t[i - n], i)] :
       n \in EarlierCounts,
       t \in UNION {[1..k -> EntryKinds] : k \in 0..MaxTail}}

InitFormat ==
    /\ InitCritic
    /\ input \in {[fn |-> "formatRecentContext", messages |-> m, contextMode |-> c] :
                     m \in Conversations, c \in ContextModes}
    /\ output = [done |-> FALSE]

\* formatRecentContext(messages, state.contextMode)
FormatContext ==
    /\ ~output.done
    /\ output' = [done |-> TRUE,
                  parts |-> formatParts(input.messages, input.contextMode,
                                        DefaultMaxMessages),
                  text |-> formatRecentContext(input.messages, input.contextMode,
                                               DefaultMaxMessages)]
    /\ UNCHANGED <<input, criticVars>>

NextFormat == FormatContext

SpecFormat == InitFormat /\ [][NextFormat]_vars

(***************************************************************************)
(* Properties of the loop governor and the feedback router                 *)
(***************************************************************************)
\* The invocations of triggerCritic that have started a review and not finished.
InFlight == Len(procs)

\* C1: at most one reviewer invocation is in flight; a reviewer is started only
\* while the in-flight flag is false, and the flag is true for as long as a
\* started review has not yet routed its feedback.
C1_AtMostOneInFlight ==
    /\ [](InFlight <= 1 /\ (InFlight > 0 => isProcessingCritic))
    /\ [][started' > started => ~isProcessingCritic]_vars

\* A review is in flight and a trigger that arrived meanwhile was dropped.
C1_Witness ==
    /\ InFlight = 1
    /\ isProcessingCritic
    /\ lastEvent.outcome = "dropped"

\* C2: reviewsThisPrompt never exceeds maxReviewsPerPrompt, at most
\* maxReviewsPerPrompt reviewer invocations are started between two genuine user
\* requests, and once the count equals the cap no trigger starts a reviewer.
C2_ReviewCap ==
    /\ [](reviewsThisPrompt <= maxReviewsPerPrompt /\ started <= maxReviewsPerPrompt)
    /\ [][reviewsThisPrompt = maxReviewsPerPrompt => started' <= started]_vars

\* The cap is reached and a further trigger has been refused.
C2_Witness ==
    /\ reviewsThisPrompt = maxReviewsPerPrompt
    /\ started = maxReviewsPerPrompt
    /\ lastEvent.outcome \in {"refused", "stop"}

\* C3: within one user request, however many triggers are refused at the cap
\* with a non-approved last verdict, exactly one stop instruction is sent.
C3_SingleStop ==
    stopRefusals >= 1 => StopsSent = 1

\* C5: a finished review that is not approved, has no error and a non-empty
\* critique, with the count below the cap, has sent exactly one follow-up
\* message: "[Critic feedback]: " followed by the critique.
C5_FeedbackRouted ==
    (/\ lastReview.ran
     /\ ~lastReview.result.approved
     /\ lastReview.result.error = "undefined"
     /\ Trim(lastReview.result.critique) # <<>>
     /\ lastReview.count < lastReview.max)
    => lastReview.feedback =
          << [text |-> <<"[", "C", "r", "i", "t", "i", "c", " ", "feedback]: ">>
                          \o lastReview.result.critique,
              deliverAs |-> "followUp"] >>

\* Such a review has finished and its feedback is among the messages sent.
C5_Witness ==
    /\ lastReview.ran
    /\ lastReview.result.status = "BLOCKED"
    /\ lastReview.count < lastReview.max
    /\ Len(lastReview.feedback) = 1
    /\ \E i \in 1..Len(sent) : sent[i] = lastReview.feedback[1]

\* C6: a review whose outcome is approved or carries an error sends no feedback:
\* it never waits to send any, and all it has emitted is its display message.
C6_NoFeedbackOnApprovalOrError ==
    /\ \A i \in 1..Len(procs) :
          ~procs[i].result.approved /\ procs[i].result.error = "undefined"
    /\ (lastReview.ran
        /\ (lastReview.result.approved \/ lastReview.result.error # "undefined"))
       => (/\ lastReview.feedback = <<>>
           /\ Len(lastReview.display) = 1
           /\ lastReview.display[1].customType = "critic-review")

\* A review that failed with a critique text of its own (the temp file could not
\* be written) has finished below the cap.
C6_Witness ==
    /\ lastReview.ran
    /\ lastReview.result.error # "undefined"
    /\ Trim(lastReview.result.critique) # <<>>
    /\ lastReview.count < lastReview.max
    /\ lastReview.feedback = <<>>

\* C10: a before_agent_start whose prompt does not start with "[Critic" resets
\* reviewsThisPrompt and lastVerdictApproved, a prompt that starts with it changes
\* neither, and every message the critic sends to the agent starts with it.
C10_GenuineReset ==
    /\ [](\A i \in 1..Len(sent) :
             /\ Len(sent[i].text) >= 7
             /\ SubSeq(sent[i].text, 1, 7) = <<"[", "C", "r", "i", "t", "i", "c">>)
    /\ [][\A p \in Prompts :
             BeforeAgentStart(p) =>
                IF Len(p) >= 7 /\ SubSeq(p, 1, 7) = <<"[", "C", "r", "i", "t", "i", "c">>
                THEN /\ reviewsThisPrompt' = reviewsThisPrompt
                     /\ lastVerdictApproved' = lastVerdictApproved
                ELSE /\ reviewsThisPrompt' = 0
                     /\ lastVerdictApproved' = "null"]_vars

\* The agent was started with the critic's stop instruction and the governor
\* kept its count and verdict.
C10_Witness ==
    /\ lastEvent.kind = "before_agent_start"
    /\ lastEvent.outcome = "kept"
    /\ lastEvent.prompt = StopMessage.text
    /\ reviewsThisPrompt > 0
    /\ lastVerdictApproved = "false"

(***************************************************************************)
(* Properties of the context filter                                        *)
(***************************************************************************)
\* C4: the assembled context holds no message whose customType is
\* "critic-review" and every other message of the list exactly once, in the
\* original order, whatever enabled and triggerMode are; filtering it again
\* changes nothing.
C4_ContextExcludesReviews ==
    output.done =>
       LET in == input.messages
           out == output.messages
       IN /\ \A i \in 1..Len(out) : out[i].customType # "critic-review"
          /\ \A i \in 1..Len(out) : \E j \in 1..Len(in) : out[i] = in[j]
          /\ \A j \in 1..Len(in) :
                in[j].customType # "critic-review"
                   => Cardinality({i \in 1..Len(out) : out[i] = in[j]}) = 1
          /\ \A i, k \in 1..Len(out) : i < k => out[i].id < out[k].id
          /\ output.passes = 2 => out = output.first

\* A list with a review between other messages has been filtered twice, with
\* the critic disabled, and another extension's message is still there.
C4_Witness ==
    /\ output.done
    /\ output.passes = 2
    /\ ~enabled
    /\ Len(input.messages) = 3
    /\ input.messages[2].customType = "critic-review"
    /\ input.messages[3].customType = "plan-mode"
    /\ Len(output.messages) = 2

(***************************************************************************)
(* Properties of the runners                                               *)
(***************************************************************************)
\* C7: for both runners, a subprocess ended because the timeout expired gives
\* an outcome with timedOut = true, error set and approved = false.
C7_TimeoutReported ==
    (output.done /\ input.b.tmp = "ok" /\ input.b.fate = "timeout")
    => /\ output.ret.result.timedOut = "true"
       /\ output.ret.result.error # "undefined"
       /\ ~output.ret.result.approved

\* The reviewer process failed: it could not be launched, exited non-zero, or
\* was ended by the timeout or an abort.
ProcessFailed(b) ==
    /\ b.tmp = "ok"
    /\ \/ b.fate \in {"spawnError", "timeout", "abort"}
       \/ b.fate = "exit" /\ b.code # 0

\* C8: neither runner throws, and when the reviewer process failed the outcome
\* it returns has error set.
C8_FailureDescribed ==
    output.done =>
       /\ ~output.ret.threw
       /\ ProcessFailed(input.b) => output.ret.result.error # "undefined"

(***************************************************************************)
(* Properties of the verdict parsing                                       *)
(***************************************************************************)
KeywordStatus(tok) ==
    CASE tok \in {"APPROVED", "approved"} -> "APPROVED"
      [] tok \in {"NEEDS_WORK", "needs_work"} -> "NEEDS_WORK"
      [] tok \in {"BLOCKED", "blocked"} -> "BLOCKED"
      [] OTHER -> "none"

AllWs(t, from, to) == \A x \in from..to : t[x] = WS

\* The keywords of the well-formed markers of t: opening tag, "status:", a status
\* keyword in any case and closing tag, with nothing but whitespace between.
MarkerKeywords(t) ==
    {t[k] : k \in {k \in 1..Len(t) :
        /\ KeywordStatus(t[k]) # "none"
        /\ \E i, j, c \in 1..Len(t) :
              /\ i < j /\ j < k /\ k < c
              /\ t[i] = OPEN /\ t[j] = STATUSKEY /\ t[c] = CLOSE
              /\ AllWs(t, i + 1, j - 1)
              /\ AllWs(t, j + 1, k - 1)
              /\ AllWs(t, k + 1, c - 1)}}

\* C9: the parsed status is APPROVED, NEEDS_WORK or BLOCKED, the status of a
\* marker of the text in whatever case it is written, approved holds exactly
\* when the status is APPROVED, and a text with no well-formed marker gives
\* NEEDS_WORK and approved = false.
C9_VerdictParsed ==
    output.done =>
       LET r == output.result
           K == MarkerKeywords(input.text)
       IN /\ r.status \in {"APPROVED", "NEEDS_WORK", "BLOCKED"}
          /\ r.approved <=> r.status = "APPROVED"
          /\ K = {} => r.status = "NEEDS_WORK" /\ ~r.approved
          /\ K # {} => \E kw \in K : r.status = KeywordStatus(kw)

\* A marker written "approved" has been parsed as an approval.
C9_Witness ==
    /\ output.done
    /\ input.text = <<OPEN, STATUSKEY, WS, "approved", CLOSE>>
    /\ output.result.approved
    /\ output.result.status = "APPROVED"

(***************************************************************************)
(* Further properties of the loop governor and the feedback router         *)
(***************************************************************************)
\* The reviews whose outcome is known: the last one finished and those waiting
\* to send their feedback.
Reviews ==
    {procs[i] : i \in 1..Len(procs)} \cup (IF lastReview.ran THEN {lastReview} ELSE {})

\* C11: every review that is started gives exactly one display message of kind
\* "critic-review" that carries the outcome and the context of the review,
\* whatever the outcome and the trigger mode.
C11_ReviewDisplayed ==
    /\ [](/\ displayed = started
          /\ \A r \in Reviews :
                /\ Len(r.display) = 1
                /\ r.display[1].customType = "critic-review"
                /\ r.display[1].result = r.result
                /\ r.display[1].content = r.result.critique
                /\ r.display[1].context \in {"branch", "tool", "messages"})
    /\ [][started' = started + 1 => displayed' = displayed + 1]_vars

\* A review started by a tool result has timed out and has been displayed.
C11_Witness ==
    /\ lastReview.ran
    /\ lastReview.result.error # "undefined"
    /\ lastEvent.kind = "tool_result"
    /\ lastEvent.outcome = "ran"
    /\ triggerMode = "tool_result"
    /\ displayed = started
    /\ lastReview.display[1].context = "tool"

\* A host event that can trigger a review is handled.
TriggerEvent ==
    \/ \E e \in BOOLEAN, b \in ReviewBehaviours : TurnEnd(e, b)
    \/ \E n \in ToolNames, i \in BOOLEAN, b \in ReviewBehaviours : ToolResult(n, i, b)
    \/ \E e \in BOOLEAN, b \in ReviewBehaviours : AgentEnd(e, b)

\* C12: a trigger that arrives while a review is in flight is dropped and not
\* queued: it starts no reviewer, changes neither reviewsThisPrompt nor
\* lastVerdictApproved, sends no display, feedback or stop message, and when the
\* review in flight finishes no review is run for it.
C12_OverlapDropped ==
    /\ [][(isProcessingCritic /\ TriggerEvent) =>
             UNCHANGED <<reviewsThisPrompt, lastVerdictApproved, started, displayed,
                         sent, procs, isProcessingCritic, lastReview>>]_vars
    /\ [][Len(procs') < Len(procs) =>
             /\ started' = started
             /\ displayed' = displayed
             /\ reviewsThisPrompt' = reviewsThisPrompt
             /\ ~isProcessingCritic']_vars

\* A tool result arrived while a review was waiting to send its feedback, and
\* that review has since finished: it stays the only review of the request.
C12_Witness ==
    /\ lastEvent.kind = "tool_result"
    /\ lastEvent.outcome = "dropped"
    /\ InFlight = 0
    /\ ~isProcessingCritic
    /\ started = 1
    /\ displayed = 1
    /\ Len(sent) = 1
    /\ lastReview.feedback = sent

\* C13: a stop instruction is sent only by a trigger that is refused because
\* reviewsThisPrompt >= maxReviewsPerPrompt while the last recorded verdict is a
\* non-approval: never after an approval or with no verdict, never by a trigger
\* refused because a review is in flight, never while the critic is disabled.
C13_StopOnlyAtCap ==
    [][StopsSent' > StopsSent =>
          /\ TriggerEvent
          /\ enabled
          /\ ~isProcessingCritic
          /\ reviewsThisPrompt >= maxReviewsPerPrompt
          /\ lastVerdictApproved = "false"
          /\ started' = started
          /\ StopsSent' = StopsSent + 1]_vars

\* A trigger at the cap after a blocked review has sent the stop instruction.
C13_Witness ==
    /\ lastEvent.outcome = "stop"
    /\ lastReview.ran
    /\ lastReview.result.status = "BLOCKED"
    /\ reviewsThisPrompt = maxReviewsPerPrompt
    /\ StopsSent = 1
    /\ sent[Len(sent)] = StopMessage

\* C14: with the cap at N, every review of a request that finds issues (status
\* NEEDS_WORK or BLOCKED, non-empty critique, no error) sends its feedback to the
\* agent, the N-th review included.
C14_EveryReviewSendsFeedback ==
    (/\ lastReview.ran
     /\ lastReview.count <= lastReview.max
     /\ lastReview.result.status \in {"NEEDS_WORK", "BLOCKED"}
     /\ lastReview.result.error = "undefined"
     /\ Trim(lastReview.result.critique) # <<>>)
    => lastReview.feedback = <<FeedbackMessage(lastReview.result.critique)>>

\* C15: after a review that ended with error set the critic does not intervene:
\* that review sends no feedback, and no stop instruction follows it on a later
\* trigger of the same request.
C15_FailureNeverIntervenes ==
    (lastReview.ran /\ lastReview.result.error # "undefined")
    => /\ lastReview.feedback = <<>>
       /\ StopsSent = 0

(***************************************************************************)
(* Further properties of the runners                                       *)
(***************************************************************************)
\* The outcome of the runner that has run and that of the other one for the
\* same subprocess behaviour.
OutcomeOfOther ==
    IF output.by = "runCriticSync" THEN runCritic(input.b).result
    ELSE runCriticSync(input.b).result

\* C16: for the same subprocess behaviour (stdout records, exit code, spawn
\* failure or timeout) runCriticSync and runCritic return outcomes that agree on
\* the critique, the status, approved, whether error is set, and timedOut.
C16_RunnersAgree ==
    (output.done /\ input.b.fate \in {"exit", "spawnError", "timeout"})
    => LET mine == output.ret.result
           other == OutcomeOfOther
       IN /\ mine.critique = other.critique
          /\ mine.status = other.status
          /\ mine.approved = other.approved
          /\ (mine.error = "undefined") <=> (other.error = "undefined")
          /\ (mine.timedOut = "true") <=> (other.timedOut = "true")

\* No stdout line is an assistant message with a text block.
NoAssistantText(lines) ==
    \A k \in 1..Len(lines) :
        ~(/\ lines[k].json
          /\ lines[k].type = "message_end"
          /\ lines[k].role = "assistant"
          /\ FirstTextIndex(lines[k].content) # 0)

\* C17: when the reviewer cannot be launched, exits non-zero without a parseable
\* assistant message, or writes nothing at all, the outcome has an error message
\* and a non-empty placeholder critique.
C17_FailurePlaceholder ==
    (/\ output.done
     /\ input.b.tmp = "ok"
     /\ \/ input.b.fate = "spawnError"
        \/ input.b.fate = "exit" /\ input.b.code # 0 /\ NoAssistantText(input.b.lines)
        \/ input.b.fate = "exit" /\ input.b.lines = <<>>)
    => /\ output.ret.result.error # "undefined"
       /\ output.ret.result.critique # <<>>

\* C18: when the external abort signal fires during a reviewer invocation
\* started by a trigger, the outcome is marked as aborted (error "Critic was
\* aborted", approved = false, timedOut = false) and the text the reviewer has
\* written is discarded: no verdict is taken from it.
C18_AbortHonoured ==
    (lastReview.ran /\ lastReview.fate = "abort")
    => /\ lastReview.result.error = "Critic was aborted"
       /\ ~lastReview.result.approved
       /\ lastReview.result.timedOut = "false"
       /\ lastReview.result.status = "undefined"

(***************************************************************************)
(* Properties of the trigger modes                                         *)
(***************************************************************************)
\* C19: in agent_end mode one review is run for a user request: when the agent
\* has run again on a message of the critic (the feedback of the first review)
\* and finishes, no second review is started.
C19_AgentEndOnce ==
    [][(/\ triggerMode = "agent_end"
        /\ started >= 1
        /\ lastEvent.kind = "before_agent_start"
        /\ lastEvent.outcome = "kept"
        /\ \E i \in 1..Len(sent) :
              sent[i].deliverAs = "followUp" /\ sent[i].text = lastEvent.prompt
        /\ \E e \in BOOLEAN, b \in ReviewBehaviours : AgentEnd(e, b))
       => started' = started]_vars

C28_CountAfterCompletion ==
    (InFlight > 0 /\ started >= InFlight)
    => reviewsThisPrompt = started - InFlight

\* C29: the display message of a review is emitted before its feedback, and the
\* handler that triggered it returns only when both are emitted and the
\* in-flight flag is cleared: a review that still has to send its feedback has
\* displayed its outcome and holds the flag, and the step that sends the
\* feedback ends the invocation and clears the flag.
C29_ResolvedBeforeReturn ==
    /\ [](/\ isProcessingCritic <=> InFlight > 0
          /\ \A i \in 1..Len(procs) :
                Len(procs[i].display) = 1 /\ procs[i].feedback = <<>>
          /\ lastReview.feedback # <<>> => Len(lastReview.display) = 1)
    /\ [][(Len(sent') > Len(sent) /\ sent'[Len(sent')].deliverAs = "followUp") =>
             /\ Len(procs') = Len(procs) - 1
             /\ ~isProcessingCritic'
             /\ lastReview'.feedback = <<sent'[Len(sent')]>>
             /\ displayed' = displayed]_vars

\* A review has displayed its outcome, then sent its feedback, and the handler
\* has returned with the flag cleared.
C29_Witness ==
    /\ lastReview.ran
    /\ Len(lastReview.display) = 1
    /\ Len(lastReview.feedback) = 1
    /\ sent = lastReview.feedback
    /\ displayed = 1
    /\ InFlight = 0
    /\ ~isProcessingCritic
    /\ lastEvent.outcome = "ran"

(***************************************************************************)
(* Properties of the context curator                                       *)
(***************************************************************************)
\* The entries whose content appears in a string.
EntriesIn(str) == {str[i].id : i \in 1..Len(str)} \ {0}

\* The formatter has something to write for a message: a user message or tool
\* result with text, an assistant message with text or a tool call.
Renders(msg) ==
    \/ /\ msg.role \in {"user", "toolResult"}
       /\ \E i \in 1..Len(msg.content) :
             msg.content[i].type = "text" /\ msg.content[i].text # <<>>
    \/ /\ msg.role = "assistant"
       /\ msg.isArray
       /\ \E i \in 1..Len(msg.content) :
             \/ msg.content[i].type = "toolCall"
             \/ msg.content[i].type = "text" /\ msg.content[i].text # <<>>

\* C22 as stated: in results_only mode the block holds the content of exactly
\* one entry, the most recent one, whatever the length of the conversation and
\* the role of that entry.
C22_ResultsOnlyExactlyOne ==
    (output.done /\ input.contextMode = "results_only")
    => EntriesIn(output.text) = {Len(input.messages)}

\* C22 amended: in results_only mode the block holds content of the most recent
\* entry only, and does hold it when that entry is a user message or tool result
\* with text or an assistant message with text or a tool call; it is empty for an
\* empty conversation.
C22_ResultsOnlyLastEntry ==
    (output.done /\ input.contextMode = "results_only")
    => LET n == Len(input.messages) IN
       /\ EntriesIn(output.text) \subseteq {n}
       /\ n = 0 => output.text = <<>>
       /\ (n > 0 /\ Renders(input.messages[n])) => EntriesIn(output.text) = {n}
       /\ \A i \in 1..Len(output.text) : output.text[i].s # "reasoning"

\* A conversation of twelve entries that ends with an assistant answer has been
\* curated in results_only mode.
C22_Witness ==
    /\ output.done
    /\ input.contextMode = "results_only"
    /\ Len(input.messages) = DefaultMaxMessages + 2
    /\ input.messages[Len(input.messages)].role = "assistant"
    /\ output.text = <<Lit("ASSISTANT: "), Piece(DefaultMaxMessages + 2, "answer")>>

IsThinkingPart(part) == part # <<>> /\ part[1] = Lit("THINKING: ")
NotThinkingPart(part) == ~IsThinkingPart(part)

\* The reasoning segments held by the assistant entries among the last
\* DefaultMaxMessages entries of a conversation.
ReasoningOf(messages) ==
    LET recent == SliceLast(messages, DefaultMaxMessages) IN
    UNION {{recent[i].content[j].text :
               j \in {j \in 1..Len(recent[i].content) :
                         /\ recent[i].role = "assistant"
                         /\ recent[i].content[j].type = "thinking"}} :
           i \in 1..Len(recent)}

\* C23: the curated context holds reasoning segments, labelled THINKING, if and
\* only if the mode is full: in full mode every reasoning segment of the last
\* ten entries appears as a THINKING part, in the other modes no THINKING part
\* and no reasoning text appears, and the full-mode parts without the THINKING
\* ones are the messages-mode parts of the same conversation.
C23_ThinkingOnlyInFull ==
    output.done =>
       LET parts == output.parts
           thinking == {parts[i] : i \in {i \in 1..Len(parts) : IsThinkingPart(parts[i])}}
       IN IF input.contextMode = "full"
          THEN /\ thinking = {<<Lit("THINKING: ")>> \o t : t \in ReasoningOf(input.messages)}
               /\ SelectSeq(parts, NotThinkingPart)
                     = formatParts(input.messages, "messages", DefaultMaxMessages)
               /\ \A i \in 1..Len(parts) :
                     parts[i][1] = Lit("ASSISTANT: ")
                        => \A k \in 1..Len(parts[i]) : parts[i][k].s \notin
                                                           {"reasoning", "more reasoning"}
          ELSE /\ thinking = {}
               /\ \A i \in 1..Len(output.text) :
                     output.text[i].s \notin {"reasoning", "more reasoning"}

\* A conversation that ends with an assistant entry of two reasoning segments
\* and a tool call has been curated in full mode.
C23_Witness ==
    /\ output.done
    /\ input.contextMode = "full"
    /\ Len(input.messages) = 1
    /\ output.parts =
          << <<Lit("THINKING: "), Piece(1, "reasoning")>>,
             <<Lit("THINKING: "), Piece(1, "more reasoning")>>,
             <<Lit("TOOL CALL: "), Piece(1, "bash"), Lit("("), Piece(1, "arguments"),
               Lit("...)")>> >>

(***************************************************************************)
(* The visual trigger: tool_result handler and image attachment            *)
(***************************************************************************)
\* Paths the two patterns of extractImagePaths match, and one they do not.
TmpPng == {"/tmp/shot.png", "/tmp/old.png"}
VarPng == {"/var/out.png"}
OtherPng == "/home/pic.png"

Strs(text) == [i \in 1..Len(text) |-> text[i].s]

\* [...new Set(paths)]: first occurrences, in order
RECURSIVE Unique(_)
Unique(seq) ==
    IF seq = <<>> THEN <<>>
    ELSE LET r == Unique(SubSeq(seq, 1, Len(seq) - 1))
             last == seq[Len(seq)]
         IN IF \E i \in 1..Len(r) : r[i] = last THEN r ELSE Append(r, last)

\* extractImagePaths(text) with files the regular files on disk
extractImagePaths(text, files) ==
    LET IsTmp(str) == str \in TmpPng
        IsVar(str) == str \in VarPng
        IsFile(path) == path \in files
        paths == SelectSeq(Strs(text), IsTmp) \o SelectSeq(Strs(text), IsVar)
    IN SelectSeq(Unique(paths), IsFile)

\* JSON.stringify(event.input) for the input {command: ...} of a bash call
JSONstringify(command) == <<Lit("{\"command\":\"")>> \o command \o <<Lit("\"}")>>

\* Entries of the branch before the tool call of the event.
MaxEarlier == 1

ToolEvent(command, content) ==
    [toolName |-> "bash", input |-> command, content |-> content]

ToolEvents ==
    {ToolEvent(c, <<Block("text", t)>>) :
       c \in {<<Piece(1, "screenshot")>>,
              <<Piece(1, "export"), Piece(1, "/tmp/shot.png")>>},
       t \in {<<Piece(1, "saved"), Piece(1, "/tmp/shot.png")>>,
              <<Piece(1, LONG), Piece(1, "/tmp/shot.png")>>,
              <<Piece(1, "wrote"), Piece(1, "/var/out.png")>>,
              <<Piece(1, "saved"), Piece(1, OtherPng)>>,
              <<Piece(1, "done")>>}}

EarlierEntries ==
    {Message("user", TRUE, <<Block("text", <<Piece(2, "compare"), Piece(2, "/tmp/old.png")>>)>>,
             "", <<>>),
     Message("toolResult", TRUE, <<Block("text", <<Piece(2, "/tmp/old.png")>>)>>,
             "bash", <<>>),
     Message("assistant", TRUE, <<Block("text", <<Piece(2, "answer")>>)>>, "", <<>>)}

\* The assistant entry that issued the tool call, and the entry of its result.
CallEntry(event) ==
    Message("assistant", TRUE,
            <<Block("toolCall", <<Piece(1, event.toolName)>> \o JSONstringify(event.input))>>,
            "", <<>>)
ResultEntry(event) == Message("toolResult", TRUE, event.content, event.toolName, <<>>)

\* The branch when the tool_result event is delivered: earlier entries, the tool
\* call, and the result entry if the session has already appended it.
Branches(event) ==
    {e \o <<CallEntry(event)>> \o r :
       e \in UNION {[1..k -> EarlierEntries] : k \in 0..MaxEarlier},
       r \in {<<>>, <<ResultEntry(event)>>}}

InitVisual ==
    /\ InitCritic
    /\ input \in {[fn |-> "tool_result", event |-> ev, branch |-> br, files |-> f,
                   contextMode |-> c] :
                     ev \in ToolEvents, br \in UNION {Branches(ev) : ev \in ToolEvents},
                     f \in SUBSET (TmpPng \cup VarPng), c \in ContextModes}
    /\ input.branch \in Branches(input.event)
    /\ output = [done |-> FALSE]

\* pi.on("tool_result") in visual mode for a trigger tool, and the attachment of
\* images in triggerCritic when the review starts.
VisualToolResult ==
    /\ ~output.done
    /\ LET event == input.event
           content == getTextContent(event.content)
           allText == JSONstringify(event.input) \o <<Lit("\n")>> \o content
           found == extractImagePaths(allText, input.files)
       IN IF found = <<>>
          THEN output' = [done |-> TRUE, fired |-> FALSE, found |-> found,
                          contextStr |-> <<>>, imagePaths |-> <<>>]
          ELSE LET contextStr == formatRecentContext(input.branch, input.contextMode,
                                                     DefaultMaxMessages)
               IN output' = [done |-> TRUE, fired |-> TRUE, found |-> found,
                             contextStr |-> contextStr,
                             imagePaths |-> extractImagePaths(contextStr, input.files)]
    /\ UNCHANGED <<input, criticVars>>

NextVisual == VisualToolResult

SpecVisual == InitVisual /\ [][NextVisual]_vars

Range(seq) == {seq[i] : i \in 1..Len(seq)}

\* C21: in visual mode a review fires for a tool result exactly when its text or
\* input names an existing image file, and the images attached to the review
\* are exactly the image paths found in that tool result.
C21_ForwardsFoundImages ==
    output.done =>
       /\ output.fired <=> output.found # <<>>
       /\ output.fired => Range(output.imagePaths) = Range(output.found)
       /\ ~output.fired => output.imagePaths = <<>>

(***************************************************************************)
(* Configuration commands, persistState and the restore at session start   *)
(***************************************************************************)
DEFAULT_TIMEOUT_MS == 60000
DEFAULT_CRITIC_PROMPT == <<"default prompt">>

\* Snapshots a session log holds at most.
MaxEntries == 2

\* Strings typed by the user are sequences of characters.  A model id and a
\* prompt are never the empty string, so <<>> stands for undefined there.
Digits == <<"0", "1", "2", "3", "4", "5", "6", "7", "8", "9">>
IsDigit(c) == \E d \in 1..10 : Digits[d] = c
DigitValue(c) == (CHOOSE d \in 1..10 : Digits[d] = c) - 1

RECURSIVE ReadDigits(_, _)
ReadDigits(str, acc) ==
    IF str # <<>> /\ IsDigit(Head(str))
    THEN ReadDigits(Tail(str), acc * 10 + DigitValue(Head(str)))
    ELSE acc

\* parseInt(str, 10): leading white space, a sign, then the leading digits
parseInt(str) ==
    LET t == TrimStart(str)
        signed == t # <<>> /\ Head(t) \in {"-", "+"}
        u == IF signed THEN Tail(t) ELSE t
    IN IF u = <<>> \/ ~IsDigit(Head(u)) THEN [isNaN |-> TRUE, n |-> 0]
       ELSE [isNaN |-> FALSE,
             n |-> IF Head(t) = "-" THEN 0 - ReadDigits(u, 0) ELSE ReadDigits(u, 0)]

\* The state object as constructed.
InitState ==
    [enabled |-> FALSE, model |-> <<>>, systemPrompt |-> DEFAULT_CRITIC_PROMPT,
     triggerMode |-> "turn_end", triggerTools |-> CRITIC_TRIGGER_TOOLS,
     timeoutMs |-> DEFAULT_TIMEOUT_MS, debug |-> FALSE, maxReviewsPerPrompt |-> 3,
     contextMode |-> "messages"]

\* A snapshot that leaves the context mode out.
SnapshotNoContext(state) ==
    [enabled |-> state.enabled, model |-> state.model,
     systemPrompt |-> state.systemPrompt, triggerMode |-> state.triggerMode,
     triggerTools |-> state.triggerTools, timeoutMs |-> state.timeoutMs,
     contextMode |-> "messages"]

\* The data of a critic-state entry.
Snapshot(state) ==
    [enabled |-> state.enabled, model |-> state.model,
     systemPrompt |-> state.systemPrompt, triggerMode |-> state.triggerMode,
     triggerTools |-> state.triggerTools, timeoutMs |-> state.timeoutMs,
     contextMode |-> state.contextMode]

\* persistState(): pi.appendEntry("critic-state", {...})
persistState(state, entries) == Append(entries, Snapshot(state))

\* A command that has changed the state object and persisted it.
Configure(fn, args, state) ==
    /\ Len(output.entries) < MaxEntries
    /\ input' = [fn |-> fn, args |-> args]
    /\ output' = [state |-> state, entries |-> persistState(state, output.entries)]
    /\ UNCHANGED criticVars

\* A command that returns without a change.
Decline(fn, args) ==
    /\ input' = [fn |-> fn, args |-> args]
    /\ UNCHANGED <<output, criticVars>>

\* /critic
CmdCritic ==
    Configure("critic", <<>>, [output.state EXCEPT !.enabled = ~output.state.enabled])

\* /critic-model: the argument, or else the result of the selector ("null" when
\* cancelled or when no model is available, <<>> for the default model).
CmdCriticModel(args, result) ==
    IF Trim(args) # <<>>
    THEN Configure("critic-model", args, [output.state EXCEPT !.model = Trim(args)])
    ELSE IF result = "null" THEN Decline("critic-model", args)
    ELSE Configure("critic-model", args, [output.state EXCEPT !.model = result])

\* /critic-prompt: newPrompt is what the editor returns, <<>> when cancelled.
CmdCriticPrompt(newPrompt) ==
    IF Trim(newPrompt) # <<>>
    THEN Configure("critic-prompt", newPrompt,
                   [output.state EXCEPT !.systemPrompt = Trim(newPrompt)])
    ELSE Decline("critic-prompt", newPrompt)

\* /critic-trigger
CmdCriticTrigger(choice) ==
    IF choice # "none"
    THEN Configure("critic-trigger", choice, [output.state EXCEPT !.triggerMode = choice])
    ELSE Decline("critic-trigger", choice)

\* The range test with the lower limit left out.
InRangeNoLower(seconds) == ~seconds.isNaN /\ ~(seconds.n > 300)

\* !(isNaN(seconds) || seconds < 5 || seconds > 300)
InRange(seconds) == ~(seconds.isNaN \/ seconds.n < 5 \/ seconds.n > 300)

\* /critic-timeout
CmdCriticTimeout(args) ==
    LET seconds == parseInt(Trim(args)) IN
    IF ~InRange(seconds) THEN Decline("critic-timeout", args)
    ELSE Configure("critic-timeout", args,
                   [output.state EXCEPT !.timeoutMs = seconds.n * 1000])

\* /critic-debug: not persisted
CmdCriticDebug ==
    /\ input' = [fn |-> "critic-debug", args |-> <<>>]
    /\ output' = [output EXCEPT !.state.debug = ~output.state.debug]
    /\ UNCHANGED criticVars

\* /critic-context
CmdCriticContext(choice) ==
    IF choice # "none"
    THEN Configure("critic-context", choice, [output.state EXCEPT !.contextMode = choice])
    ELSE Decline("critic-context", choice)

\* The operands of ?? the other way round: the state after the flags is never
\* undefined, so the snapshot is not read.
RestoreFlagsFirst(state, data) == state

\* state.x = stateEntry.data.x ?? state.x for the seven fields of a snapshot;
\* of these only model can be undefined in a snapshot persistState wrote.
Restore(state, data) ==
    [state EXCEPT !.enabled = data.enabled,
                  !.model = IF data.model = <<>> THEN state.model ELSE data.model,
                  !.systemPrompt = data.systemPrompt,
                  !.triggerMode = data.triggerMode,
                  !.triggerTools = data.triggerTools,
                  !.timeoutMs = data.timeoutMs,
                  !.contextMode = data.contextMode]

\* The flags as pi.getFlag returns them; critic-trigger defaults to turn_end.
Flags ==
    {[critic |-> FALSE, debug |-> FALSE, trigger |-> "turn_end", model |-> <<>>,
      prompt |-> <<>>, maxReviews |-> [isNumber |-> FALSE, n |-> 0]],
     [critic |-> TRUE, debug |-> TRUE, trigger |-> "visual", model |-> <<"flag model">>,
      prompt |-> <<"flag prompt">>, maxReviews |-> [isNumber |-> TRUE, n |-> 2]],
     [critic |-> TRUE, debug |-> FALSE, trigger |-> "sometimes", model |-> <<>>,
      prompt |-> <<>>, maxReviews |-> [isNumber |-> TRUE, n |-> 0]]}
NoFlags ==
    [critic |-> FALSE, debug |-> FALSE, trigger |-> "turn_end", model |-> <<>>,
     prompt |-> <<>>, maxReviews |-> [isNumber |-> FALSE, n |-> 0]]

\* The flags applied to the state object.
ApplyFlags(state, flags) ==
    [state EXCEPT
       !.enabled = IF flags.critic THEN TRUE ELSE @,
       !.debug = IF flags.debug THEN TRUE ELSE @,
       !.triggerMode = IF flags.trigger \in Modes THEN flags.trigger ELSE @,
       !.model = IF flags.model # <<>> THEN flags.model ELSE @,
       !.systemPrompt = IF flags.prompt # <<>> THEN flags.prompt ELSE @,
       !.maxReviewsPerPrompt =
          IF flags.maxReviews.isNumber /\ flags.maxReviews.n > 0
          THEN flags.maxReviews.n ELSE @]

\* A new process on the same session: criticExtension(pi) constructs the state,
\* then session_start applies the flags and the last critic-state entry.
Launch(flags) ==
    LET entries == output.entries
        flagged == ApplyFlags(InitState, flags)
    IN /\ input' = [fn |-> "session_start", args |-> flags]
       /\ output' = [output EXCEPT !.state =
                        IF entries # <<>> THEN Restore(flagged, entries[Len(entries)])
                        ELSE flagged]
       /\ UNCHANGED criticVars

ModelArgs == {<<>>, <<" ", "m", " ">>}
SelectorResults == {"null", <<>>}
PromptTexts == {<<" ">>, <<" ", "strict", " ">>}
TimeoutArgs ==
    {<<>>, <<"a", "b">>, <<"4">>, <<" ", "5", " ">>, <<"3", "0", "0">>, <<"3", "0", "1">>,
     <<"3", "0", "s">>, <<"-", "3", "0">>}

InitConfig ==
    /\ InitCritic
    /\ input = [fn |-> "none", args |-> <<>>]
    /\ output = [state |-> InitState, entries |-> <<>>]

NextConfig ==
    \/ CmdCritic
    \/ \E a \in ModelArgs, r \in SelectorResults : CmdCriticModel(a, r)
    \/ \E t \in PromptTexts : CmdCriticPrompt(t)
    \/ \E c \in {"turn_end", "tool_result", "agent_end", "none"} : CmdCriticTrigger(c)
    \/ \E a \in TimeoutArgs : CmdCriticTimeout(a)
    \/ CmdCriticDebug
    \/ \E c \in ContextModes \cup {"none"} : CmdCriticContext(c)
    \/ \E f \in Flags : Launch(f)

SpecConfig == InitConfig /\ [][NextConfig]_vars

\* C24: /critic-timeout keeps the timeout within 5 to 300 seconds.  A value
\* that reads as an integer from 5 to 300 sets timeoutMs to that many seconds
\* and appends a snapshot holding it; any other value changes neither the
\* configuration nor the log; timeoutMs is always within 5000..300000.
C24_TimeoutInRange ==
    /\ [](output.state.timeoutMs \in 5000..300000)
    /\ [][input'.fn = "critic-timeout" =>
            LET seconds == parseInt(input'.args) IN
            IF ~seconds.isNaN /\ seconds.n \in 5..300
            THEN /\ output'.state = [output.state EXCEPT !.timeoutMs = seconds.n * 1000]
                 /\ Len(output'.entries) = Len(output.entries) + 1
                 /\ SubSeq(output'.entries, 1, Len(output.entries)) = output.entries
                 /\ output'.entries[Len(output'.entries)].timeoutMs = seconds.n * 1000
            ELSE output' = output]_vars

\* /critic-timeout 4 was declined after /critic-timeout 300 had been accepted.
C24_Witness ==
    /\ input = [fn |-> "critic-timeout", args |-> <<"4">>]
    /\ output.state.timeoutMs = 300000
    /\ Len(output.entries) = 1
    /\ output.entries[1].timeoutMs = 300000

SnapshotFields ==
    {"enabled", "model", "systemPrompt", "triggerMode", "triggerTools", "timeoutMs",
     "contextMode"}
SameConfig(data, state) ==
    /\ DOMAIN data = SnapshotFields
    /\ \A f \in SnapshotFields : data[f] = state[f]

ConfigCommands ==
    {"critic", "critic-model", "critic-prompt", "critic-trigger", "critic-timeout",
     "critic-context"}

\* C25: every change of the configuration by a user command appends a snapshot
\* equal to the configuration after the change, and a session start without
\* CLI flags on a log with snapshots leaves the seven persisted fields equal to
\* the most recent snapshot.
C25_PersistAndRestore ==
    [][/\ (input'.fn \in ConfigCommands /\ output'.state # output.state)
            => /\ Len(output'.entries) = Len(output.entries) + 1
               /\ SubSeq(output'.entries, 1, Len(output.entries)) = output.entries
               /\ SameConfig(output'.entries[Len(output'.entries)], output'.state)
       /\ (input'.fn = "session_start" /\ input'.args = NoFlags /\ output.entries # <<>>)
            => /\ SameConfig(output.entries[Len(output.entries)], output'.state)
               /\ output'.entries = output.entries]_vars

\* A session started without flags on a log of two snapshots, the last one with
\* the critic enabled, the default model and the context mode full.
C25_Witness ==
    /\ input = [fn |-> "session_start", args |-> NoFlags]
    /\ Len(output.entries) = 2
    /\ output.entries[1].model = <<"m">>
    /\ output.entries[2] = [Snapshot(InitState) EXCEPT !.model = <<"m">>,
                                                       !.contextMode = "full"]
    /\ output.state = [InitState EXCEPT !.model = <<"m">>, !.contextMode = "full"]

(***************************************************************************)
(* The life of one reviewer invocation: temp files, subprocess, timers     *)
(***************************************************************************)
\* What the file system does in writePromptToTempFile, and what the child does.
TmpOutcomes == {"ok", "mkdtemp throws", "open throws", "write throws"}
Children == {"exits 0", "exits 1", "spawn error", "hangs", "ignores SIGTERM"}

Invocations ==
    [fn : {"runCritic", "runCriticSync"}, tmp : TmpOutcomes, child : Children,
     unlinkFails : BOOLEAN, rmdirFails : BOOLEAN, hasSignal : BOOLEAN]

\* Before the call: nothing on disk, no subprocess, no timer.
NewInvocation ==
    [pc |-> "start", dir |-> FALSE, file |-> FALSE, tmpPromptDir |-> FALSE,
     tmpPromptPath |-> FALSE, created |-> 0, removals |-> {}, alive |-> FALSE,
     exited |-> FALSE, killed |-> FALSE, signals |-> <<>>, timeoutArmed |-> FALSE,
     grace |-> 0, graceFiredAlive |-> FALSE, wasTimedOut |-> FALSE,
     wasAborted |-> FALSE, outcome |-> "none"]

\* writePromptToTempFile and the two assignments after it: mkdtempSync, then
\* writeFileSync, which can fail before or after it has created the file; the
\* variables are assigned only when the function returns.
writePromptToTempFile(r, tmp) ==
    [r EXCEPT !.dir = tmp # "mkdtemp throws",
              !.file = tmp \in {"ok", "write throws"},
              !.created = IF tmp = "mkdtemp throws" THEN 0 ELSE 1,
              !.tmpPromptDir = tmp = "ok",
              !.tmpPromptPath = tmp = "ok"]

\* cleanupTempFiles: unlinkSync and rmdirSync, each in its own try/catch;
\* rmdir fails on a directory that still holds the file.
cleanupTempFiles(r, unlinkFails, rmdirFails) ==
    LET file == IF r.tmpPromptPath /\ ~unlinkFails THEN FALSE ELSE r.file
        dir == IF r.tmpPromptDir /\ ~rmdirFails /\ ~file THEN FALSE ELSE r.dir
    IN [r EXCEPT !.file = file, !.dir = dir,
                 !.removals = (IF r.tmpPromptPath THEN {"unlink"} ELSE {})
                              \cup (IF r.tmpPromptDir THEN {"rmdir"} ELSE {})]

\* killProcess: proc.kill("SIGTERM") sets proc.killed when the signal was sent,
\* that is when the child still runs; the timer is set in either case.
killProcess(r) ==
    [r EXCEPT !.signals = IF r.alive THEN Append(@, "SIGTERM") ELSE @,
              !.killed = IF r.alive THEN TRUE ELSE @,
              !.grace = @ + 1]

\* runCritic up to its await: temp file, spawn, timeout timer.
RunCriticStart ==
    /\ input.fn = "runCritic"
    /\ output.pc = "start"
    /\ LET r == writePromptToTempFile(output, input.tmp) IN
       output' = IF input.tmp # "ok"
                 THEN \* catch, then finally
                      [cleanupTempFiles(r, input.unlinkFails, input.rmdirFails)
                         EXCEPT !.pc = "returned", !.outcome = "exception"]
                 ELSE [r EXCEPT !.pc = "running",
                                !.alive = input.child # "spawn error",
                                !.timeoutArmed = TRUE]
    /\ UNCHANGED <<input, criticVars>>

\* setTimeout(() => { wasTimedOut = true; killProcess(proc) }, timeoutMs)
TimeoutTimer ==
    /\ output.pc = "running"
    /\ output.timeoutArmed
    /\ output' = killProcess([output EXCEPT !.timeoutArmed = FALSE, !.wasTimedOut = TRUE])
    /\ UNCHANGED <<input, criticVars>>

\* abortHandler
AbortHandler ==
    /\ output.pc = "running"
    /\ input.hasSignal
    /\ ~output.wasAborted
    /\ output' = killProcess([output EXCEPT !.timeoutArmed = FALSE, !.wasAborted = TRUE])
    /\ UNCHANGED <<input, criticVars>>

\* The callback killProcess sets for 3 s later: if (!proc.killed) proc.kill("SIGKILL")
KillTimer ==
    /\ output.grace > 0
    /\ output' = [output EXCEPT
                    !.grace = @ - 1,
                    !.graceFiredAlive = @ \/ output.alive,
                    !.signals = IF ~output.killed THEN Append(@, "SIGKILL") ELSE @]
    /\ UNCHANGED <<input, criticVars>>

\* The child ends: by itself, on SIGTERM unless it ignores it, or on SIGKILL.
ChildExits ==
    /\ output.alive
    /\ \/ input.child \in {"exits 0", "exits 1"}
       \/ "SIGTERM" \in Range(output.signals) /\ input.child # "ignores SIGTERM"
       \/ "SIGKILL" \in Range(output.signals)
    /\ output' = [output EXCEPT !.alive = FALSE, !.exited = TRUE]
    /\ UNCHANGED <<input, criticVars>>

\* proc.on("close"): clearTimeout, resolve
OnClose ==
    /\ output.pc = "running"
    /\ output.exited
    /\ output' = [output EXCEPT !.pc = "resolved", !.timeoutArmed = FALSE]
    /\ UNCHANGED <<input, criticVars>>

\* proc.on("error"): clearTimeout, resolve(1)
OnError ==
    /\ output.pc = "running"
    /\ input.child = "spawn error"
    /\ output' = [output EXCEPT !.pc = "resolved", !.timeoutArmed = FALSE]
    /\ UNCHANGED <<input, criticVars>>

\* runCritic after the await, with its finally block.
RunCriticReturn ==
    /\ output.pc = "resolved"
    /\ output' = [cleanupTempFiles(output, input.unlinkFails, input.rmdirFails)
                    EXCEPT !.pc = "returned",
                           !.outcome = IF output.wasTimedOut THEN "timeout"
                                       ELSE IF output.wasAborted THEN "aborted"
                                       ELSE IF input.child = "exits 0" THEN "success"
                                       ELSE "error"]
    /\ UNCHANGED <<input, criticVars>>

\* runCriticSync, whole: spawnSync returns when the child has ended, so with a
\* child that ignores the SIGTERM of the timeout it does not return.
RunCriticSyncWhole ==
    /\ input.fn = "runCriticSync"
    /\ output.pc = "start"
    /\ LET r == writePromptToTempFile(output, input.tmp)
           done == cleanupTempFiles(r, input.unlinkFails, input.rmdirFails)
       IN output' =
            IF input.tmp # "ok"
            THEN [done EXCEPT !.pc = "returned", !.outcome = "exception"]
            ELSE IF input.child = "ignores SIGTERM"
            THEN [r EXCEPT !.pc = "blocked", !.alive = TRUE,
                           !.signals = <<"SIGTERM">>]
            ELSE [done EXCEPT
                    !.pc = "returned", !.exited = input.child # "spawn error",
                    !.signals = IF input.child = "hangs" THEN <<"SIGTERM">> ELSE <<>>,
                    !.outcome = CASE input.child = "exits 0" -> "success"
                                  [] input.child = "hangs" -> "timeout"
                                  [] OTHER -> "error"]
    /\ UNCHANGED <<input, criticVars>>

InitLifecycle ==
    /\ InitCritic
    /\ input \in Invocations
    /\ output = NewInvocation

NextLifecycle ==
    \/ RunCriticStart
    \/ TimeoutTimer
    \/ AbortHandler
    \/ KillTimer
    \/ ChildExits
    \/ OnClose
    \/ OnError
    \/ RunCriticReturn
    \/ RunCriticSyncWhole

SpecLifecycle == InitLifecycle /\ [][NextLifecycle]_vars

\* C26: when the callback of the grace window runs and the subprocess is still
\* alive after the graceful signal, the forceful kill is sent.
C26_ForcefulKillAfterGrace ==
    (output.graceFiredAlive /\ "SIGTERM" \in Range(output.signals))
       => "SIGKILL" \in Range(output.signals)

\* C27: a reviewer invocation creates the temp directory at most once, every
\* return has attempted the removal of what was created, and after a return
\* whose removals did not fail neither the file nor the directory exists.
C27_TempFilesRemoved ==
    /\ output.created <= 1
    /\ output.pc = "returned" =>
         /\ output.created = 1 => output.removals = {"unlink", "rmdir"}
         /\ (~input.unlinkFails /\ ~input.rmdirFails) => (~output.file /\ ~output.dir)

(***************************************************************************)
(* runCritic: the stdout stream cut into data events                       *)
(***************************************************************************)
\* Characters the subprocess writes at most.
MaxStream == 6

\* A digit (a line of digits is a JSON value), a character that makes a line
\* unparsable, white space, and the line separator.
NL == "\n"
StreamAlphabet == {"1", "x", WS, NL}
Streams == UNION {[1..n -> StreamAlphabet] : n \in 0..MaxStream}

\* str.split("\n")
RECURSIVE Split(_)
Split(str) ==
    LET I == {i \in 1..Len(str) : str[i] = NL} IN
    IF I = {} THEN <<str>>
    ELSE <<SubSeq(str, 1, Min(I) - 1)>> \o Split(SubSeq(str, Min(I) + 1, Len(str)))

\* JSON.parse(line) does not throw
IsJSON(line) ==
    LET t == Trim(line) IN t # <<>> /\ \A i \in 1..Len(t) : t[i] = "1"

\* processLine as far as the parse: a blank line and a line that does not parse
\* are skipped, the event of any other line is processed.
readLine(records, line) ==
    IF Trim(line) = <<>> THEN records
    ELSE IF ~IsJSON(line) THEN records
    ELSE Append(records, Trim(line))

RECURSIVE readLines(_, _)
readLines(records, lines) ==
    IF lines = <<>> THEN records
    ELSE readLines(readLine(records, Head(lines)), Tail(lines))

\* The data handler without the carry-over buffer.
onDataNoCarry(st, data) ==
    LET lines == Split(data) IN
    [st EXCEPT !.buffer = lines[Len(lines)],
               !.records = readLines(st.records, SubSeq(lines, 1, Len(lines) - 1))]

\* proc.stdout.on("data"): buffer += data; lines = buffer.split("\n");
\* buffer = lines.pop() || ""; for (const line of lines) processLine(line)
onData(st, data) ==
    LET lines == Split(st.buffer \o data) IN
    [st EXCEPT !.buffer = lines[Len(lines)],
               !.records = readLines(st.records, SubSeq(lines, 1, Len(lines) - 1))]

\* proc.on("close"): if (buffer.trim()) processLine(buffer)
onClose(st) ==
    [st EXCEPT !.closed = TRUE,
               !.records = IF Trim(st.buffer) # <<>> THEN readLine(@, st.buffer) ELSE @]

NewStream == [pos |-> 0, buffer |-> <<>>, records |-> <<>>, midLine |-> FALSE,
              closed |-> FALSE]

InitStream ==
    /\ InitCritic
    /\ input \in {[fn |-> "runCritic", stream |-> str] : str \in Streams}
    /\ output = NewStream

\* A data event with the next k characters of the stream.
StdoutData(k) ==
    /\ ~output.closed
    /\ output.pos + k <= Len(input.stream)
    /\ LET st == onData(output, SubSeq(input.stream, output.pos + 1, output.pos + k))
       IN output' = [st EXCEPT !.pos = @ + k,
                               !.midLine = @ \/ (st.buffer # <<>>
                                                 /\ output.pos + k < Len(input.stream))]
    /\ UNCHANGED <<input, criticVars>>

\* The close event, after the whole stream has been delivered.
StdoutClose ==
    /\ ~output.closed
    /\ output.pos = Len(input.stream)
    /\ output' = onClose(output)
    /\ UNCHANGED <<input, criticVars>>

NextStream ==
    \/ \E k \in 1..MaxStream : StdoutData(k)
    \/ StdoutClose

SpecStream == InitStream /\ [][NextStream]_vars

MarkerEnd(t, i) == SkipWs(t, SkipWs(t, SkipWs(t, i + 1) + 1) + 1)

\* C31: when a verdict marker is found, the displayed critique is the raw text
\* with exactly the matched marker block removed and the rest trimmed, and it
\* holds no opening tag followed by a closing tag.
C31_OnlyMarkerRemoved ==
    (output.done /\ VerdictMatch(input.text) # "none") =>
       LET t == input.text
           i == Min({x \in 1..Len(t) : MatchAt(t, x) # "none"})
           critique == output.result.critique
       IN /\ critique = Trim(SubSeq(t, 1, i - 1) \o SubSeq(t, MarkerEnd(t, i) + 1, Len(t)))
          /\ ~\E x, y \in 1..Len(critique) :
                x < y /\ critique[x] = OPEN /\ critique[y] = CLOSE

(***************************************************************************)
(* formatRecentContext on entries with missing fields                      *)
(***************************************************************************)
\* A message without some of its optional fields.
Without(msg, missing) ==
    [f \in DOMAIN msg \cup {"missing"} |-> IF f = "missing" THEN missing ELSE msg[f]]

Misses(msg, field) == "missing" \in DOMAIN msg /\ field \in msg.missing

\* The loop body raises a TypeError for msg: msg.content.filter on a user
\* message or tool result without content (199, 229), and
\* JSON.stringify(tc.arguments).slice on a tool call without arguments (219),
\* JSON.stringify(undefined) being undefined.  An assistant message without
\* content is not an AssistantMessage (164-166) and is passed over.
Throws(msg) ==
    \/ msg.role \in {"user", "toolResult"} /\ Misses(msg, "content")
    \/ /\ msg.role = "assistant"
       /\ msg.isArray
       /\ Misses(msg, "arguments")
       /\ \E i \in 1..Len(msg.content) : IsToolCall(msg.content[i])

\* formatRecentContext throws: some message of the slice it processes does.
formatThrows(messages, contextMode, maxMessages) ==
    LET slice == IF contextMode = "results_only" THEN SliceLast(messages, 1)
                 ELSE SliceLast(messages, maxMessages)
    IN \E i \in 1..Len(slice) : Throws(slice[i])

\* Entries of a branch at most.
MaxBranch == 2

BranchEntries ==
    {Entry("user", 1), Entry("answer", 1), Entry("bash", 1), Entry("unnamedTool", 1),
     Entry("callNoText", 1), Entry("assistantString", 1),
     Without(Message("user", FALSE, <<>>, "", <<>>), {"content"}),
     Without(Message("toolResult", FALSE, <<>>, "bash", <<>>), {"content"}),
     Without(Message("toolResult", TRUE, <<Block("text", <<Piece(1, "output")>>)>>,
                     "", <<>>), {"toolName", "details"}),
     Without(Message("assistant", FALSE, <<>>, "", <<>>), {"content"}),
     Without(Message("assistant", TRUE, <<Block("toolCall", <<Piece(1, "bash")>>)>>,
                     "", <<>>), {"arguments"})}

InitCurate ==
    /\ InitCritic
    /\ input \in {[fn |-> "turn_end", messages |-> m, contextMode |-> c] :
                     m \in UNION {[1..n -> BranchEntries] : n \in 0..MaxBranch},
                     c \in ContextModes}
    /\ output = [done |-> FALSE]

\* pi.on("turn_end") as far as the call of triggerCritic: the curator is called
\* outside any try block, so its exception ends the handler.
CurateTurnEnd ==
    /\ ~output.done
    /\ output' =
         IF formatThrows(input.messages, input.contextMode, DefaultMaxMessages)
         THEN [done |-> TRUE, threw |-> TRUE, text |-> <<>>, triggered |-> FALSE]
         ELSE LET contextStr == formatRecentContext(input.messages, input.contextMode,
                                                    DefaultMaxMessages)
              IN [done |-> TRUE, threw |-> FALSE, text |-> contextStr,
                  triggered |-> contextStr # <<>>]
    /\ UNCHANGED <<input, criticVars>>

NextCurate == CurateTurnEnd

SpecCurate == InitCurate /\ [][NextCurate]_vars

\* C32: formatRecentContext never throws, whichever optional fields of an
\* entry are missing, and the handler that calls it is not ended by an
\* exception of the curator.
C32_CuratorNeverThrows == output.done => ~output.threw

\* What the extension itself holds: the configuration, the runtime record and
\* the reviews suspended at their wait.
Governor ==
    <<enabled, triggerMode, maxReviewsPerPrompt, reviewsThisPrompt,
      isProcessingCritic, lastVerdictApproved, procs>>

\* C33: the critic sends only finitely many messages to the agent per user
\* request even when every message is answered by a turn that fires the
\* trigger: no step sends a message to the agent and leaves the extension in
\* the state it was in, where the same answer would make it send again.
C33_NoSendingCycle ==
    [][Len(sent') > Len(sent) => Governor' # Governor]_vars

\* The timer of the wait before the feedback fires: the event loop runs every
\* callback set with setTimeout.
SpecLive == Spec /\ WF_vars(FeedbackTimer /\ UNCHANGED <<input, output>>)

C35_ErrorNeverApproved ==
    output.done => ~(output.ret.result.error # "undefined" /\ output.ret.result.approved)

TriggerKinds == {"turn_end", "tool_result", "agent_end"}

\* C36: while the critic is disabled a trigger event (turn_end, tool_result,
\* agent_end) returns without a review and changes neither the count, the
\* verdict, the in-flight flag nor what has been displayed or sent; no step
\* taken while disabled starts or displays a review, sets the flag or sends a
\* stop instruction; and a genuine request still resets the count and the
\* verdict.
C36_DisabledIsInert ==
    /\ [][(~enabled /\ lastEvent' # lastEvent /\ lastEvent'.kind \in TriggerKinds) =>
             /\ lastEvent'.outcome \in {"skipped", "disabled"}
             /\ UNCHANGED <<reviewsThisPrompt, lastVerdictApproved, isProcessingCritic,
                            procs, sent, displayed, started, lastReview,
                            stopRefusals>>]_vars
    /\ [][~enabled =>
             /\ started' <= started
             /\ displayed' <= displayed
             /\ reviewsThisPrompt' \in {reviewsThisPrompt, 0}
             /\ lastVerdictApproved' \in {lastVerdictApproved, "null"}
             /\ isProcessingCritic' => isProcessingCritic
             /\ Len(sent') > Len(sent) => ~IsStop(sent'[Len(sent')])]_vars
    /\ [][(/\ ~enabled
           /\ lastEvent' # lastEvent
           /\ lastEvent'.kind = "before_agent_start"
           /\ ~StartsWith(lastEvent'.prompt, LitCritic)) =>
             /\ reviewsThisPrompt' = 0
             /\ lastVerdictApproved' = "null"]_vars

\* The critic was switched off after a review that did not approve, with that
\* review still at its wait, and a trigger event has returned at once.
C36_Witness ==
    /\ ~enabled
    /\ lastEvent.kind \in TriggerKinds
    /\ lastEvent.outcome = "skipped"
    /\ isProcessingCritic
    /\ procs # <<>>
    /\ reviewsThisPrompt >= 1
    /\ lastVerdictApproved = "false"

\* C37: a review of the previous request that is still in flight when a genuine
\* request resets the governor leaves the new request alone: until a review is
\* started after the reset (started counts the reviews since the reset) the
\* count is 0, the verdict is unknown and no stop instruction has been sent,
\* and the step that completes the older review changes neither the count nor
\* the verdict and sends no stop instruction.
C37_OlderReviewDoesNotLeak ==
    /\ [](started = 0 =>
             /\ reviewsThisPrompt = 0
             /\ lastVerdictApproved = "null"
             /\ StopsSent = 0)
    /\ [][Len(procs') < Len(procs) =>
             /\ reviewsThisPrompt' = reviewsThisPrompt
             /\ lastVerdictApproved' = lastVerdictApproved
             /\ StopsSent' = StopsSent]_vars

\* A genuine request arrived while a review was at its wait, and that review has
\* since sent its feedback and finished: no review has started since the reset.
C37_Witness ==
    /\ lastEvent.kind = "before_agent_start"
    /\ lastEvent.outcome = "reset"
    /\ started = 0
    /\ procs = <<>>
    /\ ~isProcessingCritic
    /\ lastReview.feedback # <<>>
    /\ sent = lastReview.feedback
    /\ reviewsThisPrompt = 0
    /\ lastVerdictApproved = "null"

====
